---------------------------- MODULE Spec2Model ----------------------------
(***************************************************************************)
(* A model of the Risk-Analyzer backend (src/backend): the heuristic       *)
(* analyzer, the reputation feeds, the risk scorer and the scan handlers.  *)
(*                                                                         *)
(* Conventions                                                             *)
(*   - Python str is a TLA+ string; characters are one-character strings.  *)
(*   - Python float severities, confidences and probabilities are counted  *)
(*     in hundredths (0.85 is 85); every score formula is evaluated as an  *)
(*     exact fraction num/den and rounded the way Python's round() rounds  *)
(*     (to nearest, ties to even).                                         *)
(*   - Python None / Optional[x] is a sequence of length at most one:      *)
(*     None is << >>, a present value x is << x >>.                        *)
(***************************************************************************)
EXTENDS Integers, Sequences, FiniteSets, TLC

(***************************************************************************)
(* Python str operations                                                   *)
(***************************************************************************)
Min(a, b) == IF a <= b THEN a ELSE b
Max(a, b) == IF a >= b THEN a ELSE b

None == << >>
Some(x) == << x >>

CharAt(s, i) == SubSeq(s, i, i)
\* s[i-1:j], clipped to the string as Python's slices are
Slice(s, i, j) ==
    IF Max(i, 1) > Min(j, Len(s)) THEN "" ELSE SubSeq(s, Max(i, 1), Min(j, Len(s)))
From(s, i) == Slice(s, i, Len(s))

StartsWith(s, p) == Len(s) >= Len(p) /\ Slice(s, 1, Len(p)) = p

\* sub in s
Contains(s, sub) ==
    \E i \in 1..(Len(s) - Len(sub) + 1) : Slice(s, i, i + Len(sub) - 1) = sub

\* s.find(sub): the 1-based index of the first occurrence, 0 when absent
Find(s, sub) ==
    LET hits == {i \in 1..(Len(s) - Len(sub) + 1) : Slice(s, i, i + Len(sub) - 1) = sub}
    IN  IF hits = {} THEN 0 ELSE CHOOSE i \in hits : \A j \in hits : i <= j

\* s.rfind(sub): the 1-based index of the last occurrence, 0 when absent
RFind(s, sub) ==
    LET hits == {i \in 1..(Len(s) - Len(sub) + 1) : Slice(s, i, i + Len(sub) - 1) = sub}
    IN  IF hits = {} THEN 0 ELSE CHOOSE i \in hits : \A j \in hits : i >= j

\* s.count(c) for a one-character c
Count(s, c) == Cardinality({i \in 1..Len(s) : CharAt(s, i) = c})

Upper == <<"A","B","C","D","E","F","G","H","I","J","K","L","M",
           "N","O","P","Q","R","S","T","U","V","W","X","Y","Z">>
LowerLetters == <<"a","b","c","d","e","f","g","h","i","j","k","l","m",
           "n","o","p","q","r","s","t","u","v","w","x","y","z">>
Digits == {"0","1","2","3","4","5","6","7","8","9"}
Whitespace == {" ", "\t", "\n", "\r"}

IsUpper(c) == \E k \in 1..26 : Upper[k] = c
IsLetter(c) == \E k \in 1..26 : Upper[k] = c \/ LowerLetters[k] = c
IsDigit(c) == c \in Digits
IsAlnum(c) == IsLetter(c) \/ IsDigit(c)

LowerChar(c) == IF IsUpper(c) THEN LowerLetters[CHOOSE k \in 1..26 : Upper[k] = c] ELSE c

\* s.lower(), character by character (split in halves: the result is the same)
RECURSIVE Lower(_)
Lower(s) ==
    IF Len(s) <= 1 THEN LowerChar(s)
    ELSE LET h == Len(s) \div 2
         IN  Lower(SubSeq(s, 1, h)) \o Lower(SubSeq(s, h + 1, Len(s)))

\* s.strip(): drop the leading and the trailing whitespace
LStrip(s) ==
    LET keep == {i \in 1..Len(s) : CharAt(s, i) \notin Whitespace}
    IN  IF keep = {} THEN "" ELSE From(s, CHOOSE i \in keep : \A j \in keep : i <= j)
RStrip(s) ==
    LET keep == {i \in 1..Len(s) : CharAt(s, i) \notin Whitespace}
    IN  IF keep = {} THEN "" ELSE Slice(s, 1, CHOOSE i \in keep : \A j \in keep : i >= j)
Strip(s) == RStrip(LStrip(s))

\* sep.join(parts)
RECURSIVE Join(_, _)
Join(parts, sep) ==
    IF parts = << >> THEN ""
    ELSE IF Len(parts) = 1 THEN parts[1]
    ELSE parts[1] \o sep \o Join(Tail(parts), sep)

\* s.split(c) for a one-character separator c
RECURSIVE Split(_, _)
Split(s, c) ==
    LET i == Find(s, c)
    IN  IF i = 0 THEN << s >>
        ELSE << Slice(s, 1, i - 1) >> \o Split(From(s, i + 1), c)

AlnumChars ==
    {Upper[k] : k \in 1..26} \cup {LowerLetters[k] : k \in 1..26} \cup Digits

\* every character of s is in S
AllCharsIn(s, S) == \A i \in 1..Len(s) : CharAt(s, i) \in S

\* no character of s is in S
NoCharIn(s, S) == \A i \in 1..Len(s) : CharAt(s, i) \notin S

\* int -> str
Str(n) == ToString(n)

(***************************************************************************)
(* urllib.parse.urlparse, as far as analyze_url_heuristics reads it:       *)
(* scheme, hostname and path.  (IPv6 brackets and non-ASCII hosts are not  *)
(* modelled; no URL of the model has them.)                                *)
(***************************************************************************)
SchemeChars == AlnumChars \cup {"+", "-", "."}

\* the index of the first of the delimiters / ? # in s at or after start, Len(s)+1 when none
SplitNetlocEnd(s, start) ==
    LET hits == {i \in start..Len(s) : CharAt(s, i) \in {"/", "?", "#"}}
    IN  IF hits = {} THEN Len(s) + 1 ELSE CHOOSE i \in hits : \A j \in hits : i <= j

\* urlsplit's scheme step: << scheme, rest >>
SplitScheme(url) ==
    LET i == Find(url, ":")
    IN  IF i > 1 /\ IsLetter(CharAt(url, 1)) /\ AllCharsIn(Slice(url, 1, i - 1), SchemeChars)
        THEN << Lower(Slice(url, 1, i - 1)), From(url, i + 1) >>
        ELSE << "", url >>

\* _splitparams: the path without the ;params of its last segment
SplitParams(p) ==
    LET slash == RFind(p, "/")
        rel   == Find(From(p, Max(slash, 1)), ";")
        i     == IF rel = 0 THEN 0 ELSE rel + Max(slash, 1) - 1
    IN  IF i = 0 THEN p ELSE Slice(p, 1, i - 1)

\* urlsplit's netloc step on what follows the scheme: << netloc, rest >>
SplitNetloc(rest) ==
    IF StartsWith(rest, "//")
    THEN LET nend == SplitNetlocEnd(rest, 3)
         IN  << Slice(rest, 3, nend - 1), From(rest, nend) >>
    ELSE << "", rest >>

\* s up to the first occurrence of c, all of s when c does not occur: s.split(c, 1)[0]
Before(s, c) ==
    LET i == Find(s, c)
    IN  IF i = 0 THEN s ELSE Slice(s, 1, i - 1)

\* s after the last occurrence of c, all of s when c does not occur: s.rpartition(c)[2]
AfterLast(s, c) ==
    LET i == RFind(s, c)
    IN  IF i = 0 THEN s ELSE From(s, i + 1)

\* .hostname is None for an empty host; the callers read `hostname or ""`
HostnameOf(host) == IF host = "" THEN None ELSE Some(Lower(host))

\* the result, from the scheme, the netloc and the path without fragment and query
ParseResult(scheme, netloc, rawPath) ==
    [scheme   |-> scheme,
     netloc   |-> netloc,
     path     |-> IF scheme \in {"http", "https"} /\ Contains(rawPath, ";")
                  THEN SplitParams(rawPath) ELSE rawPath,
     hostname |-> HostnameOf(Before(AfterLast(netloc, "@"), ":"))]

\* urlsplit after the scheme: the netloc, then the fragment and the query are cut off
UrlSplit(scheme, nl) == ParseResult(scheme, nl[1], Before(Before(nl[2], "#"), "?"))

UrlSplitScheme(ss) == UrlSplit(ss[1], SplitNetloc(ss[2]))

urlparse(url) == UrlSplitScheme(SplitScheme(url))

\* urlsplit raises ValueError("Invalid IPv6 URL") on a netloc with one of the brackets
\* [ ] and not the other.  (A netloc with both is not modelled; no url of the model has one.)
InvalidNetloc(netloc) == Contains(netloc, "[") # Contains(netloc, "]")

\* urlparse(url) raises
urlparse_raises(url) == InvalidNetloc(SplitNetloc(SplitScheme(url)[2])[1])

\* `x or ""` for an Optional[str]
OrEmpty(opt) == IF opt = None THEN "" ELSE opt[1]

(***************************************************************************)
(* engine/heuristics.py: the URL rules                                     *)
(***************************************************************************)
\* variant of SUSPICIOUS_TLDS: .xyz is missing from the list
SUSPICIOUS_TLDS_without_xyz ==
    {".tk", ".ml", ".ga", ".cf", ".gq", ".top", ".buzz",
     ".club", ".work", ".info", ".click", ".link", ".support",
     ".review", ".country", ".stream", ".download", ".racing",
     ".win", ".bid", ".accountant", ".science", ".party"}

SUSPICIOUS_TLDS ==
    {".xyz", ".tk", ".ml", ".ga", ".cf", ".gq", ".top", ".buzz",
     ".club", ".work", ".info", ".click", ".link", ".support",
     ".review", ".country", ".stream", ".download", ".racing",
     ".win", ".bid", ".accountant", ".science", ".party"}

SHORTENER_DOMAINS ==
    {"bit.ly", "tinyurl.com", "t.co", "goo.gl", "ow.ly", "is.gd",
     "buff.ly", "rebrand.ly", "cutt.ly", "short.io", "tiny.cc"}

\* a dict, iterated in insertion order: a sequence of (brand, variants)
BRAND_TARGETS ==
    << [brand |-> "paypal", variants |-> <<"paypa1", "paypol", "paypaI", "pay-pal", "paypall", "paypal-secure">>],
       [brand |-> "google", variants |-> <<"go0gle", "googl3", "g00gle", "goog1e", "google-verify">>],
       [brand |-> "apple", variants |-> <<"app1e", "appie", "apple-id", "appl3">>],
       [brand |-> "microsoft", variants |-> <<"micros0ft", "mlcrosoft", "microsft", "microsoft-verify">>],
       [brand |-> "amazon", variants |-> <<"amaz0n", "arnazon", "amazon-secure", "arnazon">>],
       [brand |-> "netflix", variants |-> <<"netf1ix", "netfllx", "netflix-account">>],
       [brand |-> "facebook", variants |-> <<"faceb00k", "facebok", "facebook-login">>],
       [brand |-> "instagram", variants |-> <<"1nstagram", "lnstagram", "instagram-verify">>],
       [brand |-> "linkedin", variants |-> <<"l1nkedin", "linkedln", "linkedin-verify">>],
       [brand |-> "chase", variants |-> <<"chas3", "chase-secure", "chase-verify">>],
       [brand |-> "wellsfargo", variants |-> <<"we11sfargo", "wellsfarg0", "wells-fargo-secure">>],
       [brand |-> "bankofamerica", variants |-> <<"bankofamer1ca", "bank0famerica">>] >>

\* an indicator dict; severity in hundredths
Indicator(name, severity, explanation) ==
    [name |-> name, detected |-> TRUE, severity |-> severity, explanation |-> explanation]

\* re.match(r"^\d{1,3}\.\d{1,3}\.\d{1,3}\.\d{1,3}$", hostname)
IsDottedQuad(hostname) ==
    LET parts == Split(hostname, ".")
    IN  /\ Len(parts) = 4
        /\ \A k \in 1..4 : Len(parts[k]) \in 1..3 /\ AllCharsIn(parts[k], Digits)

\* the tld of rule 4: "." + hostname.rsplit(".", 1)[-1] when the hostname has a dot
TldOf(hostname) ==
    IF Contains(hostname, ".") THEN "." \o From(hostname, RFind(hostname, ".") + 1) ELSE ""

\* variant of SubdomainCount: the labels of the hostname are counted, not its subdomains
SubdomainCount_counting_labels(hostname) ==
    IF hostname # "" THEN Count(hostname, ".") + 1 ELSE 0

\* rule 6
SubdomainCount(hostname) ==
    IF hostname # "" THEN Max(0, Count(hostname, ".") - 1) ELSE 0

\* variant of VariantHits: the hostname is not searched for the brand itself
VariantHits_without_brand_check(brand, variant, hostname_lower) ==
    Contains(hostname_lower, Lower(variant))

\* rule 8's inner condition, on the lowercased hostname
VariantHits(brand, variant, hostname_lower) ==
    Contains(hostname_lower, Lower(variant)) /\ ~Contains(hostname_lower, brand)

\* rule 8: the first (brand, variant) in table order that hits, << >> when none does
FirstBrandHit(hostname) ==
    LET h == Lower(hostname)
        hitsOf(b) == {v \in 1..Len(BRAND_TARGETS[b].variants) :
                        VariantHits(BRAND_TARGETS[b].brand, BRAND_TARGETS[b].variants[v], h)}
        firstOf(b) == IF hitsOf(b) = {} THEN 0
                      ELSE CHOOSE v \in hitsOf(b) : \A w \in hitsOf(b) : v <= w
        first == [b \in 1..Len(BRAND_TARGETS) |-> firstOf(b)]
        brands == {b \in 1..Len(BRAND_TARGETS) : first[b] # 0}
    IN  IF brands = {} THEN << >>
        ELSE LET b == CHOOSE c \in brands : \A d \in brands : c <= d
             IN  << BRAND_TARGETS[b].brand, BRAND_TARGETS[b].variants[first[b]] >>

suspicious_paths == <<"login", "signin", "verify", "secure", "account", "banking", "update", "confirm">>

\* 1. URL length check
UrlLengthRule(url) ==
    IF Len(url) > 75
    THEN << Indicator("Excessive URL Length", Min(100, Len(url) - 75),
              "This URL is " \o Str(Len(url)) \o " characters long. Legitimate URLs are typically shorter. Long URLs can hide malicious paths.") >>
    ELSE << >>

\* 2. IP address in URL
IpAddressRule(hostname) ==
    IF IsDottedQuad(hostname)
    THEN << Indicator("IP Address Instead of Domain", 85,
              "This URL uses an IP address instead of a domain name. Legitimate websites almost always use domain names.") >>
    ELSE << >>

\* 3. No HTTPS
HttpsRule(scheme) ==
    IF scheme # "https"
    THEN << Indicator("Missing HTTPS", 60,
              "This URL does not use HTTPS encryption. Most legitimate sites use HTTPS to protect your data.") >>
    ELSE << >>

\* 4. Suspicious TLD
TldRule(tld) ==
    IF Lower(tld) \in SUSPICIOUS_TLDS
    THEN << Indicator("Suspicious Top-Level Domain", 70,
              "The domain uses '" \o tld \o "' which is commonly associated with phishing and spam websites.") >>
    ELSE << >>

\* 5. URL shortener
ShortenerRule(hostname) ==
    IF Lower(hostname) \in SHORTENER_DOMAINS
    THEN << Indicator("URL Shortener Detected", 50,
              "This URL uses a shortening service which hides the actual destination. The real URL could be malicious.") >>
    ELSE << >>

\* 6. Excessive subdomains
SubdomainRule(subdomain_count) ==
    IF subdomain_count >= 3
    THEN << Indicator("Excessive Subdomains", Min(100, subdomain_count * 20),
              "This URL has " \o Str(subdomain_count) \o " subdomains. Phishing sites often use many subdomains to mimic legitimate domains.") >>
    ELSE << >>

\* 7. @ symbol in URL
AtSymbolRule(url) ==
    IF Contains(url, "@")
    THEN << Indicator("@ Symbol in URL", 90,
              "The '@' symbol in a URL can redirect you to a different site than what's displayed. This is a common phishing technique.") >>
    ELSE << >>

\* 8. Brand impersonation / typosquatting; hit is FirstBrandHit's result
BrandRule(hit) ==
    IF hit # << >>
    THEN << Indicator("Brand Impersonation", 95,
              "This domain appears to impersonate '" \o hit[1] \o "' using a lookalike name '" \o hit[2] \o "'. This is a common phishing technique.") >>
    ELSE << >>

\* variant of PathKeywordRule: a keyword in the path is enough
PathKeywordRule_on_keyword_alone(found_path_keywords, indicators) ==
    IF found_path_keywords # << >>
    THEN << Indicator("Suspicious Path Keywords", 60,
              "The URL path contains sensitive keywords (" \o Join(found_path_keywords, ", ") \o ") combined with other suspicious signals.") >>
    ELSE << >>

\* 9. Suspicious path keywords; indicators are those appended so far
PathKeywordRule(found_path_keywords, indicators) ==
    IF /\ found_path_keywords # << >>
       /\ \E k \in 1..Len(indicators) :
              indicators[k].name \in {"Suspicious Top-Level Domain", "Brand Impersonation", "Missing HTTPS"}
    THEN << Indicator("Suspicious Path Keywords", 60,
              "The URL path contains sensitive keywords (" \o Join(found_path_keywords, ", ") \o ") combined with other suspicious signals.") >>
    ELSE << >>

\* 10. Double extension or encoded characters
EncodingRule(url, path) ==
    IF Contains(url, "%2") \/ Contains(url, "%3") \/ Contains(path, "..")
    THEN << Indicator("URL Encoding / Obfuscation", 70,
              "This URL contains encoded or obfuscated characters, which can hide the true destination.") >>
    ELSE << >>

\* rules 1 to 8, in the order the code appends their indicators
HostRules(url, scheme, hostname) ==
    UrlLengthRule(url) \o IpAddressRule(hostname) \o HttpsRule(scheme)
        \o TldRule(TldOf(hostname)) \o ShortenerRule(hostname)
        \o SubdomainRule(SubdomainCount(hostname)) \o AtSymbolRule(url)
        \o BrandRule(FirstBrandHit(hostname))

\* rules 9 and 10, appended to the indicators of rules 1 to 8
PathRules(indicators, url, path) ==
    indicators
        \o PathKeywordRule(SelectSeq(suspicious_paths, LAMBDA kw : Contains(Lower(path), kw)),
                           indicators)
        \o EncodingRule(url, path)

\* the rules on a parsed url
UrlRules(url, parsed) ==
    PathRules(HostRules(url, parsed.scheme, OrEmpty(parsed.hostname)), url, parsed.path)

analyze_url_heuristics(url) == UrlRules(url, urlparse(url))

(***************************************************************************)
(* engine/heuristics.py: the email rules                                   *)
(***************************************************************************)
URGENCY_KEYWORDS ==
    <<"verify now", "act immediately", "suspended", "unauthorized",
      "confirm your", "update your", "expire", "urgent", "immediately",
      "click here", "limited time", "account locked", "security alert",
      "verify your identity", "unusual activity", "confirm identity",
      "reset your password", "action required", "final warning",
      "your account will be", "failure to", "within 24 hours",
      "within 48 hours", "deactivated", "restricted">>

sensitive_keywords ==
    <<"password", "credit card", "social security", "ssn", "bank account",
      "routing number", "pin number", "date of birth", "mother's maiden">>

generic_greetings ==
    <<"dear customer", "dear user", "dear sir", "dear account holder", "dear valued">>

threats ==
    <<"will be terminated", "will be closed", "will be suspended", "legal action", "law enforcement">>

link_words == {"click here", "verify", "login", "sign in"}

\* xs[:n]
Take(xs, n) == SubSeq(xs, 1, Min(n, Len(xs)))

\* the length of "http://" or "https://" at position i of s, 0 when neither is there
SchemeLenAt(s, i) ==
    IF Slice(s, i, i + 7) = "https://" THEN 8
    ELSE IF Slice(s, i, i + 6) = "http://" THEN 7
    ELSE 0

\* the end of the longest run, starting at i, of characters in S (inside) or not in S
\* (~inside); i - 1 when the run is empty
RunEnd(s, i, S, inside) ==
    LET stops == {j \in i..Len(s) : (CharAt(s, j) \in S) # inside}
    IN  IF stops = {} THEN Len(s) ELSE (CHOOSE j \in stops : \A k \in stops : j <= k) - 1

NotUrlChars == Whitespace \cup {"<", ">", "\"", "'"}

\* the end of the match of  https?://[^\s<>"']+  at i, 0 when it does not match there
UrlMatchEnd(s, i) ==
    LET p == SchemeLenAt(s, i)
        e == RunEnd(s, i + p, NotUrlChars, FALSE)
    IN  IF p > 0 /\ e >= i + p THEN e ELSE 0

\* re.findall(r'https?://[^\s<>"\']+', s) from position start on
RECURSIVE FindUrls(_, _)
FindUrls(s, start) ==
    LET begins == {i \in start..Len(s) : UrlMatchEnd(s, i) > 0}
    IN  IF begins = {} THEN << >>
        ELSE LET i == CHOOSE b \in begins : \A c \in begins : b <= c
                 e == UrlMatchEnd(s, i)
             IN  << Slice(s, i, e) >> \o FindUrls(s, e + 1)

\* re.findall(r'(https?://[^\s]+)\s*(?:click here|verify|login|sign in)', s) is non-empty
HasLinkContext(s) ==
    \E i \in 1..Len(s) :
        LET p == SchemeLenAt(s, i)
            e == RunEnd(s, i + p, Whitespace, FALSE)
        IN  /\ p > 0
            /\ \E j \in (i + p)..e :
                LET w == RunEnd(s, j + 1, Whitespace, TRUE)
                IN  \E k \in j..w : \E word \in link_words :
                        Slice(s, k + 1, k + Len(word)) = word

\* returns [indicators, urls_in_email]
analyze_email_heuristics(content) ==
    LET content_lower == Lower(content)
        \* 1. Urgency language
        found_urgency == SelectSeq(URGENCY_KEYWORDS, LAMBDA kw : Contains(content_lower, kw))
        e1 == IF found_urgency # << >>
              THEN << Indicator("Urgency Language Detected", Min(100, Len(found_urgency) * 15),
                        "This message uses pressure language: " \o Join(Take(found_urgency, 5), ", ") \o ". Phishing emails create a false sense of urgency to trick you into acting quickly.") >>
              ELSE << >>
        \* 2. Extract URLs from email content
        urls_in_email == FindUrls(content, 1)
        e2 == IF Len(urls_in_email) > 3
              THEN << Indicator("Multiple URLs in Message", 40,
                        "This message contains " \o Str(Len(urls_in_email)) \o " URLs. Phishing emails often include multiple links to increase the chance of a click.") >>
              ELSE << >>
        \* 3. Mismatched display text vs URL (basic check)
        e3 == IF HasLinkContext(content_lower)
              THEN << Indicator("Suspicious Link Context", 60,
                        "A URL in this message is paired with action words like 'click here' or 'verify'. This pattern is common in phishing emails.") >>
              ELSE << >>
        \* 4. Request for sensitive info
        found_sensitive == SelectSeq(sensitive_keywords, LAMBDA kw : Contains(content_lower, kw))
        e4 == IF found_sensitive # << >>
              THEN << Indicator("Request for Sensitive Information", 85,
                        "This message mentions sensitive data: " \o Join(Take(found_sensitive, 3), ", ") \o ". Legitimate organizations rarely ask for this via email.") >>
              ELSE << >>
        \* 5. Generic greeting
        e5 == IF \E k \in 1..Len(generic_greetings) : Contains(content_lower, generic_greetings[k])
              THEN << Indicator("Generic Greeting", 35,
                        "This message uses a generic greeting instead of your name. Legitimate companies usually address you personally.") >>
              ELSE << >>
        \* 6. Threatening language
        found_threats == SelectSeq(threats, LAMBDA t : Contains(content_lower, t))
        e6 == IF found_threats # << >>
              THEN << Indicator("Threatening Language", 70,
                        "This message contains threatening language: '" \o found_threats[1] \o "'. Phishing emails often threaten consequences to pressure victims.") >>
              ELSE << >>
    IN  [indicators |-> e1 \o e2 \o e3 \o e4 \o e5 \o e6, urls_in_email |-> urls_in_email]

(***************************************************************************)
(* config.py                                                               *)
(***************************************************************************)
SAFE_THRESHOLD == 30
SUSPICIOUS_THRESHOLD == 60

(***************************************************************************)
(* Python's float: IEEE 754 binary64, round to nearest, ties to even.      *)
(* A natural number is the sequence of its digits in base 2^15, the least  *)
(* significant first and the most significant not 0; a float that is not   *)
(* negative is [m, e], standing for m * 2^e.                               *)
(***************************************************************************)
RECURSIVE Pow2(_), Big(_), Trim(_), BigAdd(_, _, _), BigMulSmall(_, _, _), BigMul(_, _)
RECURSIVE BigDivSmall(_, _), SmallBits(_), BigToInt(_), FSum(_, _)

\* the element of a set of one element; Only({F(a) : a \in {x}}) is F(x) with x evaluated once
Only(S) == CHOOSE r \in S : TRUE

\* the base of the digits: the product of two digits is below 2^31
Limb == 2^15

Pow2(b) == IF b = 0 THEN 1 ELSE 2 * Pow2(b - 1)

Big(n) == IF n = 0 THEN << >> ELSE << n % Limb >> \o Big(n \div Limb)

\* a without the zeros at its most significant end
Trim(a0) ==
    Only({IF a = << >> THEN a
          ELSE IF a[Len(a)] = 0 THEN Trim(SubSeq(a, 1, Len(a) - 1)) ELSE a : a \in {a0}})

\* a + b + carry
BigAdd(a0, b0, carry0) ==
    Only({IF a = << >> /\ b = << >> THEN Big(carry)
          ELSE LET x == (IF a = << >> THEN 0 ELSE Head(a)) + (IF b = << >> THEN 0 ELSE Head(b)) + carry
               IN  << x % Limb >> \o BigAdd(IF a = << >> THEN a ELSE Tail(a),
                                            IF b = << >> THEN b ELSE Tail(b), x \div Limb)
          : a \in {a0}, b \in {b0}, carry \in {carry0}})

\* a * k + carry for k < 2^15
BigMulSmall(a0, k, carry0) ==
    Only({IF a = << >> THEN Big(carry)
          ELSE << (Head(a) * k + carry) % Limb >>
                   \o BigMulSmall(Tail(a), k, (Head(a) * k + carry) \div Limb)
          : a \in {a0}, carry \in {carry0}})

\* a * b
BigMul(a0, b0) ==
    Only({IF b = << >> \/ a = << >> THEN << >>
          ELSE Trim(BigAdd(BigMulSmall(a, Head(b), 0), << 0 >> \o BigMul(a, Tail(b)), 0))
          : a \in {a0}, b \in {b0}})

\* << a div k, a mod k >> for 0 < k < 2^15, from the most significant digit down
BigDivSmall(a0, k) ==
    Only({IF a = << >> THEN << << >>, 0 >>
          ELSE Only({<< Trim(<< (high[2] * Limb + Head(a)) \div k >> \o high[1]),
                        (high[2] * Limb + Head(a)) % k >> : high \in {BigDivSmall(Tail(a), k)}})
          : a \in {a0}})

Zeros(n) == [i \in 1..n |-> 0]

\* a * 2^n
BigShl(a0, n0) ==
    Only({IF a = << >> THEN a ELSE Trim(Zeros(n \div 15) \o BigMulSmall(a, Pow2(n % 15), 0))
          : a \in {a0}, n \in {n0}})

\* a div 2^n
BigShr(a0, n0) ==
    Only({IF n \div 15 >= Len(a) THEN << >>
          ELSE BigDivSmall(SubSeq(a, n \div 15 + 1, Len(a)), Pow2(n % 15))[1]
          : a \in {a0}, n \in {n0}})

SmallBits(x) == IF x = 0 THEN 0 ELSE 1 + SmallBits(x \div 2)

\* the number of bits of a
BitLen(a0) == Only({IF a = << >> THEN 0 ELSE 15 * (Len(a) - 1) + SmallBits(a[Len(a)]) : a \in {a0}})

IsOdd(a0) == Only({a # << >> /\ a[1] % 2 = 1 : a \in {a0}})

BigToInt(a0) == Only({IF a = << >> THEN 0 ELSE Head(a) + Limb * BigToInt(Tail(a)) : a \in {a0}})

\* a / 2^n for n > 0, rounded to the nearest natural, a tie to the even one
RoundShr(a0, n0) ==
    Only({IF IsOdd(h) /\ (BigShl(h, n - 1) # a \/ IsOdd(BigShr(h, 1)))
          THEN Trim(BigAdd(BigShr(h, 1), << 1 >>, 0))
          ELSE BigShr(h, 1)
          : a \in {a0}, n \in {n0}, h \in {BigShr(a0, n0 - 1)}})

\* the float nearest to m * 2^e: 53 significant bits
Fl(m0, e0) ==
    Only({IF bits <= 53 THEN [m |-> m, e |-> e]
          ELSE [m |-> RoundShr(m, bits - 53), e |-> e + bits - 53]
          : m \in {m0}, e \in {e0}, bits \in {BitLen(m0)}})

FInt(n) == [m |-> Big(n), e |-> 0]

FMul(x0, y0) == Only({Fl(BigMul(x.m, y.m), x.e + y.e) : x \in {x0}, y \in {y0}})

FAdd(x0, y0) ==
    Only({IF x.e <= y.e THEN Fl(Trim(BigAdd(x.m, BigShl(y.m, y.e - x.e), 0)), x.e)
          ELSE Fl(Trim(BigAdd(BigShl(x.m, x.e - y.e), y.m, 0)), y.e)
          : x \in {x0}, y \in {y0}})

\* x / n for an integer 0 < n < 2^15: the quotient to 70 more bits, and one more bit
\* that is set when the division left a remainder
FDivInt(x0, n) ==
    Only({IF x.m = << >> THEN x
          ELSE Only({Fl(BigMulSmall(d[1], 2, IF d[2] = 0 THEN 0 ELSE 1), x.e - 71)
                     : d \in {BigDivSmall(BigShl(x.m, 70), n)}})
          : x \in {x0}})

\* the float of the decimal num / den
Dec(num, den) == FDivInt(FInt(num), den)

\* the floats of the literals 0.00, 0.01, ..., 1.00
Hundredth == [k \in 0..100 |-> Dec(k, 100)]

\* round(x): the nearest integer, a tie to the even one
FRound(x0) ==
    Only({IF x.e >= 0 THEN BigToInt(BigShl(x.m, x.e))
          ELSE IF -x.e > BitLen(x.m) + 1 THEN 0
          ELSE BigToInt(RoundShr(x.m, -x.e))
          : x \in {x0}})

\* sum(xs) added on to acc, left to right
FSum(acc0, xs0) ==
    Only({IF xs = << >> THEN acc ELSE FSum(FAdd(acc, Head(xs)), Tail(xs))
          : acc \in {acc0}, xs \in {xs0}})

(***************************************************************************)
(* engine/scorer.py                                                        *)
(*                                                                         *)
(* Severities are hundredths, confidences and probabilities are            *)
(* ten-thousandths (the granularity of round(x, 4)).  A score before       *)
(* rounding is the exact fraction num/den.                                 *)
(***************************************************************************)

\* round(num/den) for num >= 0, den > 0: Python 3 rounds to nearest, ties to even
PyRound(num, den) ==
    LET q == num \div den
        r == num % den
    IN  IF 2 * r < den THEN q
        ELSE IF 2 * r > den THEN q + 1
        ELSE IF q % 2 = 0 THEN q ELSE q + 1

\* min(100, max(0, round(x)))
ClampRound(num, den) == Min(100, Max(0, PyRound(num, den)))

\* min(100, max(0, round(x))) for the float x that the code computes for the fraction
\* num/den.  The float is less than 2^-30 away from the fraction and the fraction,
\* when it is not halfway between two integers, is at least 1/(2*den) away from
\* halfway, so the two round alike; when it is halfway the float arithmetic decides.
ClampRoundFloat(num, den, x) ==
    Min(100, Max(0, IF 2 * (num % den) = den THEN FRound(x) ELSE PyRound(num, den)))

\* weights in hundredths
WEIGHTS_FULL == [domain |-> 35, structural |-> 25, language |-> 20, api |-> 20]

\* variant of WEIGHTS_NO_API: the api weight left at its full-table value
WEIGHTS_NO_API_unredistributed == [domain |-> 44, structural |-> 31, language |-> 25, api |-> 20]

WEIGHTS_NO_API == [domain |-> 44, structural |-> 31, language |-> 25, api |-> 0]

\* variant of _classify_label: strict comparisons, so that 30 and 60 fall in the upper band
_classify_label_strict(score) ==
    IF score < SAFE_THRESHOLD THEN "safe"
    ELSE IF score < SUSPICIOUS_THRESHOLD THEN "suspicious"
    ELSE "dangerous"

_classify_label(score) ==
    IF score <= SAFE_THRESHOLD THEN "safe"
    ELSE IF score <= SUSPICIOUS_THRESHOLD THEN "suspicious"
    ELSE "dangerous"

RECURSIVE SumSeverity(_)
SumSeverity(inds) == IF inds = << >> THEN 0 ELSE Head(inds).severity + SumSeverity(Tail(inds))

MaxSeverity(inds) ==
    CHOOSE m \in {inds[k].severity : k \in 1..Len(inds)} :
        \A k \in 1..Len(inds) : inds[k].severity <= m

\* variant of BlendedScore: the count boost left out
BlendedScore_no_boost(relevant) ==
    LET n  == Len(relevant)
        mx == MaxSeverity(relevant)
        total == SumSeverity(relevant)
    IN  [num |-> 6 * mx * n + 4 * total, den |-> 10 * n]

\* blended_severity * 100 * count_boost over a non-empty list, as a fraction:
\*   blended_severity = max*0.6 + avg*0.4,  count_boost = min(1.0, 0.5 + n*0.2)
BlendedScore(relevant) ==
    LET n  == Len(relevant)
        mx == MaxSeverity(relevant)
        total == SumSeverity(relevant)
        boost10 == Min(10, 5 + 2 * n)
    IN  [num |-> (6 * mx * n + 4 * total) * boost10, den |-> 100 * n]

\* the severities of the indicators as floats: a severity is a literal of heuristics.py
FSeverities(inds) == [k \in 1..Len(inds) |-> Hundredth[inds[k].severity]]

\* blended_severity * 100 * count_boost over a non-empty list, as the float arithmetic does it
BlendedFloat(relevant) ==
    LET n == Len(relevant)
        max_severity == Hundredth[MaxSeverity(relevant)]
        avg_severity == FDivInt(FSum(FInt(0), FSeverities(relevant)), n)
        blended_severity == FAdd(FMul(max_severity, Hundredth[60]), FMul(avg_severity, Hundredth[40]))
        \* 0.5 + n * 0.2 is below 1.0 for n <= 2 and above it from n = 3 on
        count_boost == IF n >= 3 THEN FInt(1) ELSE FAdd(Hundredth[50], FMul(FInt(n), Hundredth[20]))
    IN  FMul(FMul(blended_severity, FInt(100)), count_boost)

domain_indicator_names ==
    {"IP Address Instead of Domain", "Suspicious Top-Level Domain", "Brand Impersonation",
     "Excessive Subdomains", "URL Shortener Detected"}

\* variant of MlUsable: the available flag is not read
MlUsable_ignores_available(ml_result) ==
    /\ ml_result # None
    /\ ml_result[1].probability # None

\* ml_result is None or Some([available, probability]), probability None or Some(p)
MlUsable(ml_result) ==
    /\ ml_result # None
    /\ ml_result[1].available
    /\ ml_result[1].probability # None

\* variant of compute_domain_score: the heuristic and the classifier blended half and half
compute_domain_score_even_blend(url_indicators, ml_result) ==
    LET relevant == SelectSeq(url_indicators,
                        LAMBDA ind : ind.name \in domain_indicator_names /\ ind.detected)
        heuristic_score == IF relevant = << >> THEN [num |-> 0, den |-> 1]
                           ELSE BlendedScore(relevant)
        blended == IF MlUsable(ml_result)
                   THEN [num |-> 5 * 100 * heuristic_score.num
                                   + 5 * ml_result[1].probability[1] * heuristic_score.den,
                         den |-> 1000 * heuristic_score.den]
                   ELSE heuristic_score
    IN  ClampRound(blended.num, blended.den)

compute_domain_score(url_indicators, ml_result) ==
    LET relevant == SelectSeq(url_indicators,
                        LAMBDA ind : ind.name \in domain_indicator_names /\ ind.detected)
        heuristic_score == IF relevant = << >> THEN [num |-> 0, den |-> 1]
                           ELSE BlendedScore(relevant)
        \* ml_score = probability * 100; blended = heuristic_score*0.6 + ml_score*0.4
        blended == IF MlUsable(ml_result)
                   THEN [num |-> 6 * 100 * heuristic_score.num
                                   + 4 * ml_result[1].probability[1] * heuristic_score.den,
                         den |-> 1000 * heuristic_score.den]
                   ELSE heuristic_score
        heuristic_float == IF relevant = << >> THEN FInt(0) ELSE BlendedFloat(relevant)
        blended_float == IF MlUsable(ml_result)
                         THEN FAdd(FMul(heuristic_float, Hundredth[60]),
                                   FMul(FMul(Dec(ml_result[1].probability[1], 10000), FInt(100)),
                                        Hundredth[40]))
                         ELSE heuristic_float
    IN  ClampRoundFloat(blended.num, blended.den, blended_float)

structural_names ==
    {"Excessive URL Length", "@ Symbol in URL", "URL Encoding / Obfuscation",
     "Suspicious Path Keywords", "Missing HTTPS"}

compute_structural_score(url_indicators) ==
    LET relevant == SelectSeq(url_indicators,
                        LAMBDA ind : ind.name \in structural_names /\ ind.detected)
    IN  IF relevant = << >> THEN 0
        ELSE ClampRoundFloat(BlendedScore(relevant).num, BlendedScore(relevant).den,
                             BlendedFloat(relevant))

compute_language_score(email_indicators) ==
    LET relevant == SelectSeq(email_indicators, LAMBDA ind : ind.detected)
        n == Len(relevant)
    IN  IF email_indicators = << >> THEN 0
        ELSE IF relevant = << >> THEN 0
        \* avg_severity * 100 * min(1.0, n * 0.2)
        \* n * 0.2 is below 1.0 for n <= 4 and is 1.0 for n = 5
        ELSE ClampRoundFloat(SumSeverity(relevant) * Min(10, 2 * n), 10 * n,
                 FMul(FMul(FDivInt(FSum(FInt(0), FSeverities(relevant)), n), FInt(100)),
                      IF n >= 5 THEN FInt(1) ELSE FMul(FInt(n), Hundredth[20])))

\* variant of GetUnavailable: r.get("unavailable", False)
GetUnavailable_default_false(r) == IF "unavailable" \in DOMAIN r THEN r.unavailable ELSE FALSE

\* r.get("unavailable", True)
GetUnavailable(r) == IF "unavailable" \in DOMAIN r THEN r.unavailable ELSE TRUE

RECURSIVE SumConfidence(_)
SumConfidence(rs) == IF rs = << >> THEN 0 ELSE Head(rs).confidence + SumConfidence(Tail(rs))

\* variant of compute_api_score: the confidence sum is not averaged and the score not clamped
compute_api_score_unclamped(api_results) ==
    LET available_results == SelectSeq(api_results, LAMBDA r : ~GetUnavailable(r))
        threat_results == SelectSeq(available_results, LAMBDA r : r.is_threat)
        threat_count == Len(threat_results)
        total_checked == Len(available_results)
        total_confidence == SumConfidence(threat_results)
    IN  IF available_results = << >> THEN << 0, FALSE >>
        ELSE IF threat_count = 0 THEN << 0, TRUE >>
        ELSE << PyRound(60 * threat_count * 10000 + 40 * total_confidence * total_checked,
                        10000 * total_checked),
                TRUE >>

\* variant of compute_api_score: the threat ratio is taken over every feed, not the available ones
compute_api_score_ratio_over_all(api_results) ==
    LET available_results == SelectSeq(api_results, LAMBDA r : ~GetUnavailable(r))
        threat_results == SelectSeq(available_results, LAMBDA r : r.is_threat)
        threat_count == Len(threat_results)
        total_checked == Len(api_results)
        total_confidence == SumConfidence(threat_results)
    IN  IF available_results = << >> THEN << 0, FALSE >>
        ELSE IF threat_count = 0 THEN << 0, TRUE >>
        ELSE << ClampRound(60 * threat_count * 10000 * threat_count
                             + 40 * total_confidence * total_checked,
                           10000 * threat_count * total_checked),
                TRUE >>

\* variant of compute_api_score: threats are counted over every feed, available or not
compute_api_score_counts_unavailable(api_results) ==
    LET available_results == SelectSeq(api_results, LAMBDA r : ~GetUnavailable(r))
        threat_results == SelectSeq(api_results, LAMBDA r : r.is_threat)
        threat_count == Len(threat_results)
        total_checked == Len(available_results)
        total_confidence == SumConfidence(threat_results)
    IN  IF available_results = << >> THEN << 0, FALSE >>
        ELSE IF threat_count = 0 THEN << 0, TRUE >>
        ELSE << ClampRound(60 * threat_count * 10000 * threat_count
                             + 40 * total_confidence * total_checked,
                           10000 * threat_count * total_checked),
                TRUE >>

\* returns << score, available >>
compute_api_score(api_results) ==
    LET available_results == SelectSeq(api_results, LAMBDA r : ~GetUnavailable(r))
        threat_results == SelectSeq(available_results, LAMBDA r : r.is_threat)
        threat_count == Len(threat_results)
        total_checked == Len(available_results)
        total_confidence == SumConfidence(threat_results)
    IN  IF available_results = << >> THEN << 0, FALSE >>
        ELSE IF threat_count = 0 THEN << 0, TRUE >>
        \* threat_count/total_checked * 60 + total_confidence/threat_count * 40
        ELSE << ClampRoundFloat(60 * threat_count * 10000 * threat_count
                                  + 40 * total_confidence * total_checked,
                                10000 * threat_count * total_checked,
                                FAdd(FMul(FDivInt(FInt(threat_count), total_checked), FInt(60)),
                                     FMul(FDivInt(FSum(FInt(0), [k \in 1..threat_count |->
                                                       Dec(threat_results[k].confidence, 10000)]),
                                                  threat_count), FInt(40)))),
                TRUE >>

\* variant of compute_overall_score: WEIGHTS_FULL whatever api_available is
compute_overall_score_full_weights(domain_score, structural_score, language_score, api_score, api_available) ==
    LET weights == WEIGHTS_FULL
        overall == ClampRound(domain_score * weights.domain
                                + structural_score * weights.structural
                                + language_score * weights.language
                                + api_score * weights.api, 100)
    IN  << overall, _classify_label(overall) >>

\* variant of compute_overall_score: the two weight tables taken for each other
compute_overall_score_weights_swapped(domain_score, structural_score, language_score, api_score, api_available) ==
    LET weights == IF api_available THEN WEIGHTS_NO_API ELSE WEIGHTS_FULL
        overall == ClampRound(domain_score * weights.domain
                                + structural_score * weights.structural
                                + language_score * weights.language
                                + api_score * weights.api, 100)
    IN  << overall, _classify_label(overall) >>

\* score * weight as floats, for every score of 0..100 and every weight of a table
WeightedScores ==
    [w \in {WEIGHTS_FULL[k] : k \in DOMAIN WEIGHTS_FULL} \cup {WEIGHTS_NO_API[k] : k \in DOMAIN WEIGHTS_NO_API} |->
        [score \in 0..100 |-> FMul(FInt(score), Hundredth[w])]]

\* score * weight as a float
WeightedScore(score, w) ==
    IF score \in 0..100 THEN WeightedScores[w][score] ELSE FMul(FInt(score), Hundredth[w])

\* returns << overall, label >>
compute_overall_score(domain_score, structural_score, language_score, api_score, api_available) ==
    LET weights == IF api_available THEN WEIGHTS_FULL ELSE WEIGHTS_NO_API
        overall == ClampRoundFloat(domain_score * weights.domain
                                     + structural_score * weights.structural
                                     + language_score * weights.language
                                     + api_score * weights.api, 100,
                       FAdd(FAdd(FAdd(WeightedScore(domain_score, weights.domain),
                                      WeightedScore(structural_score, weights.structural)),
                                 WeightedScore(language_score, weights.language)),
                            WeightedScore(api_score, weights.api)))
    IN  << overall, _classify_label(overall) >>

education_map ==
    [name \in {"IP Address Instead of Domain", "Suspicious Top-Level Domain", "Brand Impersonation",
               "Missing HTTPS", "Urgency Language Detected", "Request for Sensitive Information",
               "URL Shortener Detected", "Excessive URL Length", "Generic Greeting",
               "@ Symbol in URL"} |->
        [title |->
            CASE name = "IP Address Instead of Domain" -> "Why IP addresses in URLs are suspicious"
              [] name = "Suspicious Top-Level Domain" -> "Understanding domain extensions"
              [] name = "Brand Impersonation" -> "How to spot fake brand domains"
              [] name = "Missing HTTPS" -> "Why HTTPS matters"
              [] name = "Urgency Language Detected" -> "Recognizing pressure tactics"
              [] name = "Request for Sensitive Information" -> "When to share personal information"
              [] name = "URL Shortener Detected" -> "Hidden destinations behind short links"
              [] name = "Excessive URL Length" -> "Why long URLs can be suspicious"
              [] name = "Generic Greeting" -> "Impersonal messages are a red flag"
              [] name = "@ Symbol in URL" -> "The @ symbol trick in URLs"]]

SafeTip == [title |-> "Good practice: Always verify before trusting"]
RiskTip == [title |-> "What to do with suspicious content"]

\* the entries carry their title; the fixed content text is left out
generate_education(indicators, label) ==
    LET detected == SelectSeq(indicators, LAMBDA ind : ind.detected)
        known == SelectSeq(detected, LAMBDA ind : ind.name \in DOMAIN education_map)
        education == [k \in 1..Len(known) |-> education_map[known[k].name]]
    IN  IF label = "safe" THEN Append(education, SafeTip)
        ELSE IF label \in {"suspicious", "dangerous"} THEN Append(education, RiskTip)
        ELSE education

(***************************************************************************)
(* engine/api_checker.py.  What a feed's HTTP exchange yields is the       *)
(* environment's: "error" stands for any exception raised inside the try   *)
(* block (connection, timeout, HTTP status, JSON).                         *)
(***************************************************************************)
FeedUnavailable(api_name, error) ==
    [api_name |-> api_name, is_threat |-> FALSE, confidence |-> 0,
     unavailable |-> TRUE, error |-> Some(error)]

FeedVerdict(api_name, is_threat, confidence) ==
    [api_name |-> api_name, is_threat |-> is_threat, confidence |-> confidence,
     unavailable |-> FALSE, error |-> None]

\* http: "error", or the number of matches in the reply
check_google_safe_browsing(key, http) ==
    IF key = "" THEN FeedUnavailable("google_safe_browsing", "API key not configured")
    ELSE IF http = << "error" >> THEN FeedUnavailable("google_safe_browsing", "request failed")
    ELSE FeedVerdict("google_safe_browsing", http[2] > 0, IF http[2] > 0 THEN 10000 ELSE 0)

\* http: "error", "404", or the reply's last_analysis_stats as << "stats", malicious, suspicious, others >>
check_virustotal(key, http) ==
    IF key = "" THEN FeedUnavailable("virustotal", "API key not configured")
    ELSE IF http = << "error" >> THEN FeedUnavailable("virustotal", "request failed")
    ELSE IF http = << "404" >> THEN FeedVerdict("virustotal", FALSE, 0)
    ELSE LET malicious == http[2]
             suspicious == http[3]
             total == malicious + suspicious + http[4]
         IN  IF total > 0
             \* threat_ratio > 0.1, round(threat_ratio, 4)
             THEN FeedVerdict("virustotal", 10 * (malicious + suspicious) > total,
                              PyRound((malicious + suspicious) * 10000, total))
             ELSE FeedVerdict("virustotal", FALSE, 0)

\* http: "error", or the reply's << "results", in_database, verified, valid >>
check_phishtank(http) ==
    IF http = << "error" >> THEN FeedUnavailable("phishtank", "request failed")
    ELSE LET is_phish == http[2] /\ http[3] /\ http[4]
         IN  FeedVerdict("phishtank", is_phish, IF is_phish THEN 10000 ELSE 0)

\* http: "error", or the reply's << "query_status", status >>
check_urlhaus(http) ==
    IF http = << "error" >> THEN FeedUnavailable("urlhaus", "request failed")
    ELSE LET is_threat == http[2] = "listed"
         IN  FeedVerdict("urlhaus", is_threat, IF is_threat THEN 10000 ELSE 0)

\* checks in which a feed that fails takes the feeds after it down with it
check_all_apis_stopping_at_failure(cfg, net) ==
    LET gsb == check_google_safe_browsing(cfg.GOOGLE_SAFE_BROWSING_API_KEY, net.gsb)
        vt == IF gsb.unavailable THEN FeedUnavailable("virustotal", gsb.error[1])
              ELSE check_virustotal(cfg.VIRUSTOTAL_API_KEY, net.vt)
        pt == IF vt.unavailable THEN FeedUnavailable("phishtank", vt.error[1])
              ELSE check_phishtank(net.pt)
        uh == IF pt.unavailable THEN FeedUnavailable("urlhaus", pt.error[1])
              ELSE check_urlhaus(net.uh)
    IN  << gsb, vt, pt, uh >>

\* cfg: the two API keys; net: what each feed's exchange yields
check_all_apis(cfg, net) ==
    << check_google_safe_browsing(cfg.GOOGLE_SAFE_BROWSING_API_KEY, net.gsb),
       check_virustotal(cfg.VIRUSTOTAL_API_KEY, net.vt),
       check_phishtank(net.pt),
       check_urlhaus(net.uh) >>

\* a step a handler takes: the function it calls, and on what
Step(op, arg) == [op |-> op, arg |-> arg]

\* the HTTP exchange of a feed check
Http(api_name) == << Step("http", api_name) >>

\* what each check does when called: a feed without its key returns before its request,
\* and no check makes a second request
check_google_safe_browsing_steps(key, url) ==
    << Step("check_google_safe_browsing", url) >>
        \o (IF key = "" THEN << >> ELSE Http("google_safe_browsing"))

check_virustotal_steps(key, url) ==
    << Step("check_virustotal", url) >> \o (IF key = "" THEN << >> ELSE Http("virustotal"))

check_phishtank_steps(url) == << Step("check_phishtank", url) >> \o Http("phishtank")

check_urlhaus_steps(url) == << Step("check_urlhaus", url) >> \o Http("urlhaus")

\* the steps of check_all_apis(url), in order
check_all_apis_steps(cfg, url) ==
    check_google_safe_browsing_steps(cfg.GOOGLE_SAFE_BROWSING_API_KEY, url)
        \o check_virustotal_steps(cfg.VIRUSTOTAL_API_KEY, url)
        \o check_phishtank_steps(url)
        \o check_urlhaus_steps(url)

(***************************************************************************)
(* engine/intel.py: each lookup is the environment's; reach is "up" when   *)
(* the lookups' network calls succeed (a shortener's link then redirects   *)
(* to another url) and "down" when they raise.                             *)
(***************************************************************************)
INTEL_SHORTENER_DOMAINS ==
    {"bit.ly", "tinyurl.com", "t.co", "goo.gl", "ow.ly",
     "is.gd", "buff.ly", "rebrand.ly", "cutt.ly", "shorturl.at", "tiny.cc"}

lookup_whois(hostname, reach) == [available |-> hostname # None /\ reach = "up"]

lookup_ssl(scheme, hostname, reach) ==
    [available |-> scheme = "https" /\ hostname # None /\ reach = "up"]

lookup_dns_geo(hostname, reach) == [available |-> hostname # None /\ reach = "up"]

unshorten_url(hostname, reach) ==
    [is_shortened |-> /\ hostname # None
                      /\ hostname[1] \in INTEL_SHORTENER_DOMAINS
                      /\ reach = "up",
     error |-> IF /\ hostname # None
                  /\ hostname[1] \in INTEL_SHORTENER_DOMAINS
                  /\ reach = "down"
               THEN Some("request failed") ELSE None]

get_screenshot_url(url, hostname) ==
    [available |-> hostname # None,
     url |-> IF hostname # None
             THEN Some("https://image.thum.io/get/width/600/crop/800/" \o url)
             ELSE None]

\* every lookup parses the url for itself, to the same result
IntelOf(url, parsed, reach) ==
    [whois |-> lookup_whois(parsed.hostname, reach),
     ssl |-> lookup_ssl(parsed.scheme, parsed.hostname, reach),
     dns_geo |-> lookup_dns_geo(parsed.hostname, reach),
     unshorten |-> unshorten_url(parsed.hostname, reach),
     screenshot |-> get_screenshot_url(url, parsed.hostname)]

gather_url_intel(url, reach) == IntelOf(url, urlparse(url), reach)

(***************************************************************************)
(* routers/scan.py                                                         *)
(***************************************************************************)
Ok(v) == [ok |-> TRUE, value |-> v]
Err(msg) == [ok |-> FALSE, error |-> msg]

\* [a-zA-Z0-9](?:[a-zA-Z0-9-]{0,61}[a-zA-Z0-9])?
IsLabel(s) ==
    /\ Len(s) \in 1..63
    /\ IsAlnum(CharAt(s, 1))
    /\ IsAlnum(CharAt(s, Len(s)))
    /\ AllCharsIn(s, AlnumChars \cup {"-"})

\* (?:LABEL\.)*LABEL
IsLabels(s) ==
    LET parts == Split(s, ".")
    IN  \A k \in 1..Len(parts) : IsLabel(parts[k])

\* (?::\d+)?(?:/[^\s]*)?$
IsPortAndPath(s) ==
    LET slash == Find(s, "/")
        port == IF slash = 0 THEN s ELSE Slice(s, 1, slash - 1)
        path == IF slash = 0 THEN "" ELSE From(s, slash)
    IN  /\ port = "" \/ (Len(port) >= 2 /\ CharAt(port, 1) = ":" /\ AllCharsIn(From(port, 2), Digits))
        /\ NoCharIn(path, Whitespace)

\* url_pattern.match(v).  The pattern is  ^https?://HOST | IP(:port)?(/path)?$  : the
\* alternation binds loosest, so the first branch matches any prefix and the
\* second the whole of v from its first character.
url_pattern_match(v) ==
    LET low == Lower(v)
        rest == IF StartsWith(low, "https://") THEN Some(From(v, 9))
                ELSE IF StartsWith(low, "http://") THEN Some(From(v, 8))
                ELSE None
        first == /\ rest # None
                 /\ \E k \in 1..Len(rest[1]) : IsLabels(Slice(rest[1], 1, k))
        ipEnd == LET hits == {i \in 1..Len(v) : CharAt(v, i) \in {":", "/"}}
                 IN  IF hits = {} THEN Len(v) + 1 ELSE CHOOSE i \in hits : \A j \in hits : i <= j
        second == /\ IsDottedQuad(Slice(v, 1, ipEnd - 1))
                  /\ IsPortAndPath(From(v, ipEnd))
    IN  first \/ second

\* UrlScanRequest.validate_url
validate_url(raw) ==
    LET stripped == Strip(raw)
        v == IF StartsWith(stripped, "http://") \/ StartsWith(stripped, "https://")
             THEN stripped ELSE "http://" \o stripped
    IN  IF stripped = "" THEN Err("URL cannot be empty")
        ELSE IF ~url_pattern_match(v) THEN Err("Invalid URL format")
        ELSE Ok(v)

severity_label(severity) ==
    IF severity >= 70 THEN "high" ELSE IF severity >= 40 THEN "medium" ELSE "low"

\* the response's indicator entry
Shown(ind) == [name |-> ind.name, severity |-> severity_label(ind.severity),
               explanation |-> ind.explanation]

_build_api_status(api_results) ==
    [name \in {api_results[k].api_name : k \in 1..Len(api_results)} |->
        LET last == CHOOSE k \in 1..Len(api_results) :
                        /\ api_results[k].api_name = name
                        /\ \A j \in 1..Len(api_results) : api_results[j].api_name = name => j <= k
        \* result.get("unavailable"): falsy when the key is missing
        IN  IF "unavailable" \in DOMAIN api_results[last] /\ api_results[last].unavailable
            THEN "unavailable" ELSE "available"]

\* what clients submit to /scan/url
RawUrls ==
    {"http://192.168.1.1/banking/login",
     "http://paypa1-secure.xyz/login/verify",
     "https://www.google.com",
     "https://example.com/login",
     "https://paypal-secure.com/account",
     "bit.ly/3xYz",
     "https://a.b.c.d.example.com/",
     "https://user@evil.example.tk/%2e%2e/x",
     "https://example.com/docs/a-very-long-path-segment/that-goes-on-and-on/and-on/until-it-is-long.html",
     "  https://PayPaI.com/Verify ",
     "https://go0gle.paypal.com.evil.top/secure",
     "https://g00gle-paypa1.com/",
     "http://exa mple.com",
     "http://-bad-.com",
     "http://a[b/login",
     "   "}

\* the values of the validation results that are accepted
Accepted(results) == {r.value : r \in {x \in results : x.ok}}

\* the validated urls of the model
ModelUrls == Accepted({validate_url(raw) : raw \in RawUrls})

\* analyze_url_heuristics tabulated over the model's urls: TLC evaluates a constant
\* once, and an operator at every use
HeuristicsTable == [u \in ModelUrls |-> analyze_url_heuristics(u)]

\* table[key] when the table has the key, and otherwise the value computed afresh
Tabulated(table, key, computed) == IF key \in DOMAIN table THEN table[key] ELSE computed

Heuristics(url) == Tabulated(HeuristicsTable, url, analyze_url_heuristics(url))

ML_DISABLED == Some([available |-> FALSE, probability |-> None])

\* scan_url from the sub-scores on: the overall score, and the response
UrlResponse(url, url_indicators, api_results, domain_score, structural_score, language_score, api, intel) ==
    LET overall == compute_overall_score(domain_score, structural_score, language_score,
                                         api[1], api[2])
        detected == SelectSeq(url_indicators, LAMBDA ind : ind.detected)
    IN  [overall_score |-> overall[1],
         label |-> overall[2],
         sub_scores |-> [domain |-> domain_score, structural |-> structural_score,
                         language |-> language_score, api_reputation |-> api[1]],
         indicators |-> [k \in 1..Len(detected) |-> Shown(detected[k])],
         education |-> generate_education(url_indicators, overall[2]),
         api_status |-> _build_api_status(api_results),
         ml_status |-> "disabled",
         intel |-> intel,
         scan_type |-> "url",
         scanned_input |-> url]

\* scan_url from the layers' results on: the sub-scores
UrlScores(url, url_indicators, ml_result, api_results, intel) ==
    UrlResponse(url, url_indicators, api_results,
                compute_domain_score(url_indicators, ml_result),
                compute_structural_score(url_indicators),
                0,
                compute_api_score(api_results),
                intel)

\* the body of scan_url for a validated url
scan_url(url, cfg, net, reach) ==
    UrlScores(url, Heuristics(url), ML_DISABLED, check_all_apis(cfg, net),
              gather_url_intel(url, reach))

\* the steps of scan_url: the heuristics raise when urlparse does, before any feed is asked
scan_url_steps(url, cfg) ==
    << Step("analyze_url_heuristics", url) >>
        \o (IF urlparse_raises(url) THEN << >>
            ELSE check_all_apis_steps(cfg, url) \o << Step("gather_url_intel", url) >>)

\* EmailScanRequest.validate_content
validate_content_ten_too_short(raw) ==
    LET v == Strip(raw)
    IN  IF v = "" THEN Err("Email content cannot be empty")
        ELSE IF Len(v) <= 10 THEN Err("Email content is too short to analyze meaningfully")
        ELSE Ok(v)

validate_content(raw) ==
    LET v == Strip(raw)
    IN  IF v = "" THEN Err("Email content cannot be empty")
        ELSE IF Len(v) < 10 THEN Err("Email content is too short to analyze meaningfully")
        ELSE Ok(v)

\* what clients submit to /scan/email
RawEmails ==
    {"Hello team, lunch at noon tomorrow?",
     "hi",
     "",
     "   ",
     "  123456789 ",
     " 0123456789 ",
     "Dear customer, your account will be suspended within 24 hours. Verify now: http://paypa1-secure.xyz/login/verify click here and confirm your password immediately or face legal action.",
     "Links: http://a.example.com http://b.example.com http://c.example.com <https://d.example.com> http://e.example.com http://192.168.1.1/banking/login",
     "See https://www.google.com for details",
     "Urgent: update your bank account",
     "Please open http://ok.example.com first and then http://a[b/login to finish.",
     "Minutes of the meeting. The committee met on Tuesday and went through the agenda point by point; nothing was decided, and the next meeting is on the first Tuesday of the next month, in the same room, at the same time as always."}

ModelEmails == Accepted({validate_content(raw) : raw \in RawEmails})

\* the url rules on the first five urls of an email, next to its own indicators
WithUrlRules(a) ==
    [indicators |-> a.indicators,
     urls_in_email |-> a.urls_in_email,
     url_inds |-> [k \in 1..Min(5, Len(a.urls_in_email)) |-> Heuristics(a.urls_in_email[k])]]

\* analyze_email_heuristics, and analyze_url_heuristics of the first five urls, tabulated
EmailTable == [c \in ModelEmails |-> WithUrlRules(analyze_email_heuristics(c))]

\* layers 1a and 1b of scan_email
EmailRules(content) ==
    Tabulated(EmailTable, content, WithUrlRules(analyze_email_heuristics(content)))

RECURSIVE Flatten(_)
Flatten(lists) == IF lists = << >> THEN << >> ELSE Head(lists) \o Flatten(Tail(lists))

\* the detected indicators, the first of each name only
Deduplicated(inds) ==
    LET detected == SelectSeq(inds, LAMBDA ind : ind.detected)
        firsts == {k \in 1..Len(detected) : \A j \in 1..(k - 1) : detected[j].name # detected[k].name}
        RECURSIVE pick(_)
        pick(k) == IF k > Len(detected) THEN << >>
                   ELSE (IF k \in firsts THEN << Shown(detected[k]) >> ELSE << >>) \o pick(k + 1)
    IN  pick(1)

\* scan_email from the sub-scores on: the overall score, and the response
EmailResponse(content, extracted_urls, all_indicators, all_api_results, domain_score, structural_score, language_score, api) ==
    LET overall == compute_overall_score(domain_score, structural_score, language_score,
                                         api[1], api[2])
    IN  [overall_score |-> overall[1],
         label |-> overall[2],
         sub_scores |-> [domain |-> domain_score, structural |-> structural_score,
                         language |-> language_score, api_reputation |-> api[1]],
         indicators |-> Deduplicated(all_indicators),
         education |-> generate_education(all_indicators, overall[2]),
         api_status |-> IF all_api_results # << >>
                        THEN _build_api_status(Take(all_api_results, 4))
                        ELSE << >>,
         ml_status |-> "disabled",
         scan_type |-> "email",
         scanned_input |-> Take(content, 200) \o (IF Len(content) > 200 THEN "..." ELSE ""),
         extracted_urls |-> Take(extracted_urls, 5)]

\* variant of EmailScores: the reputation layer counts as available when no feed was asked
EmailScores_api_available_without_results(content, email_indicators, extracted_urls, all_url_indicators, all_api_results, ml_result) ==
    EmailResponse(content, extracted_urls, email_indicators \o all_url_indicators,
                  all_api_results,
                  IF all_url_indicators # << >>
                  THEN compute_domain_score(all_url_indicators, ml_result) ELSE 0,
                  IF all_url_indicators # << >>
                  THEN compute_structural_score(all_url_indicators) ELSE 0,
                  compute_language_score(email_indicators),
                  IF all_api_results # << >> THEN compute_api_score(all_api_results)
                  ELSE << 0, TRUE >>)

\* scan_email from the layers' results on: the sub-scores
EmailScores(content, email_indicators, extracted_urls, all_url_indicators, all_api_results, ml_result) ==
    EmailResponse(content, extracted_urls, email_indicators \o all_url_indicators,
                  all_api_results,
                  IF all_url_indicators # << >>
                  THEN compute_domain_score(all_url_indicators, ml_result) ELSE 0,
                  IF all_url_indicators # << >>
                  THEN compute_structural_score(all_url_indicators) ELSE 0,
                  compute_language_score(email_indicators),
                  IF all_api_results # << >> THEN compute_api_score(all_api_results)
                  ELSE << 0, FALSE >>)

\* scan_email's loop over the first five urls; nets[k] is what the feeds yield for the k-th
EmailLayers(content, cfg, nets, h) ==
    EmailScores(content, h.indicators, h.urls_in_email, Flatten(h.url_inds),
                Flatten([k \in 1..Len(h.url_inds) |-> check_all_apis(cfg, nets[k])]),
                ML_DISABLED)

\* the body of scan_email for a validated content
scan_email(content, cfg, nets) == EmailLayers(content, cfg, nets, EmailRules(content))

\* the index of the first url that urlparse raises on, 0 when it raises on none
FirstRaising(urls) ==
    LET raising == {k \in 1..Len(urls) : urlparse_raises(urls[k])}
    IN  IF raising = {} THEN 0 ELSE CHOOSE k \in raising : \A j \in raising : k <= j

\* the steps of scan_email's loop over urls = extracted_urls[:5], which ends at the
\* first url the heuristics raise on (stop), when there is one
EmailLoopSteps(cfg, urls, stop) ==
    Flatten([k \in 1..(IF stop = 0 THEN Len(urls) ELSE stop - 1) |->
                << Step("analyze_url_heuristics", urls[k]) >> \o check_all_apis_steps(cfg, urls[k])])
        \o (IF stop = 0 THEN << >> ELSE << Step("analyze_url_heuristics", urls[stop]) >>)

scan_email_steps(content, cfg, urls) ==
    << Step("analyze_email_heuristics", content) >>
        \o EmailLoopSteps(cfg, Take(urls, 5), FirstRaising(Take(urls, 5)))

\* scan_email raises when the heuristics of one of its first five urls do
scan_email_raises(urls) == FirstRaising(Take(urls, 5)) # 0

(***************************************************************************)
(* routers/bulk.py                                                         *)
(***************************************************************************)
\* `x is None`, whatever x is
IsNone(x) == ToString(x) = ToString(None)

\* the non-blank urls of v, stripped
Cleaned(v) == SelectSeq([k \in 1..Len(v) |-> Strip(v[k])], LAMBDA url : url # "")

\* BulkScanRequest.validate_urls without its limit
validate_urls_unlimited(v) ==
    IF v = << >> THEN Err("URL list cannot be empty")
    ELSE IF Cleaned(v) = << >> THEN Err("No valid URLs provided")
    ELSE Ok(Cleaned(v))

\* BulkScanRequest.validate_urls
validate_urls(v) ==
    IF v = << >> THEN Err("URL list cannot be empty")
    ELSE IF Len(v) > 10 THEN Err("Maximum 10 URLs per bulk scan")
    ELSE IF Cleaned(v) = << >> THEN Err("No valid URLs provided")
    ELSE Ok(Cleaned(v))

\* the record scan_bulk appends when UrlScanRequest or scan_url raises
ErrorRecord(url, message) ==
    [overall_score |-> None, label |-> "error", scanned_input |-> url, error |-> message]

\* one turn of scan_bulk's loop: v is what UrlScanRequest(url=url) gives.  str(e) is
\* modelled by the message of the ValueError that was raised.
BulkItem(url, v, cfg, env) ==
    IF ~v.ok THEN ErrorRecord(url, v.error)
    ELSE IF urlparse_raises(v.value) THEN ErrorRecord(url, "Invalid IPv6 URL")
    ELSE scan_url(v.value, cfg, env.net, env.reach)

\* a loop that ends at the first url that fails
BulkResults_stopping_at_failure(urls, cfg, envs) ==
    LET failing == {k \in 1..Len(urls) :
                        \/ ~validate_url(urls[k]).ok
                        \/ urlparse_raises(validate_url(urls[k]).value)}
        last == IF failing = {} THEN Len(urls)
                ELSE CHOOSE k \in failing : \A j \in failing : k <= j
    IN  [k \in 1..last |-> BulkItem(urls[k], validate_url(urls[k]), cfg, envs[k])]

\* the results of scan_bulk's loop
BulkResults(urls, cfg, envs) ==
    [k \in 1..Len(urls) |-> BulkItem(urls[k], validate_url(urls[k]), cfg, envs[k])]

RECURSIVE SumOverall(_), MaxOverall(_)
SumOverall(rs) == IF rs = << >> THEN 0 ELSE Head(rs).overall_score + SumOverall(Tail(rs))

MaxOverall(rs) == IF rs = << >> THEN 0 ELSE Max(Head(rs).overall_score, MaxOverall(Tail(rs)))

CountLabel(rs, label) == Len(SelectSeq(rs, LAMBDA r : r.label = label))

\* the summary of scan_bulk
\* variant of BulkSummary: every result counts as scanned
BulkSummary_counting_errors_as_scanned(results, valid_results) ==
    [total |-> Len(results),
     scanned |-> Len(results),
     errors |-> Len(results) - Len(valid_results),
     avg_score |-> IF valid_results # << >>
                   THEN PyRound(SumOverall(valid_results), Len(valid_results)) ELSE 0,
     highest_risk |-> MaxOverall(valid_results),
     distribution |-> [safe |-> CountLabel(valid_results, "safe"),
                       suspicious |-> CountLabel(valid_results, "suspicious"),
                       dangerous |-> CountLabel(valid_results, "dangerous")]]

BulkSummary(results, valid_results) ==
    [total |-> Len(results),
     scanned |-> Len(valid_results),
     errors |-> Len(results) - Len(valid_results),
     avg_score |-> IF valid_results # << >>
                   THEN PyRound(SumOverall(valid_results), Len(valid_results)) ELSE 0,
     highest_risk |-> MaxOverall(valid_results),
     distribution |-> [safe |-> CountLabel(valid_results, "safe"),
                       suspicious |-> CountLabel(valid_results, "suspicious"),
                       dangerous |-> CountLabel(valid_results, "dangerous")]]

\* valid_results of scan_bulk
ValidResults(results) == SelectSeq(results, LAMBDA r : ~IsNone(r.overall_score))

BulkBody(results) ==
    [summary |-> BulkSummary(results, ValidResults(results)), results |-> results]

\* scan_bulk on the validated list urls, envs[k] being what the k-th url meets
scan_bulk(urls, cfg, envs) == BulkBody(BulkResults(urls, cfg, envs))

\* the steps of scan_bulk: UrlScanRequest raises before scan_url is called
scan_bulk_steps(urls, cfg) ==
    Flatten([k \in 1..Len(urls) |->
                IF validate_url(urls[k]).ok
                THEN scan_url_steps(validate_url(urls[k]).value, cfg) ELSE << >>])

\* what clients submit to /scan/bulk
Blank8 == << "", " ", "", "  ", "", " ", "", "" >>

RawBulks ==
    {<< >>,
     << "   ", "" >>,
     [k \in 1..11 |-> "https://www.google.com"],
     Blank8 \o << "", " ", "https://www.google.com" >>,
     Blank8 \o << "https://www.google.com", "http://paypa1-secure.xyz/login/verify" >>,
     << "https://www.google.com", "http://-bad-.com", "http://192.168.1.1/banking/login" >>,
     << "http://a[b/login", "http://paypa1-secure.xyz/login/verify" >>,
     << "bit.ly/3xYz", " https://example.com/login " >>,
     << "http://-bad-.com", "http://a[b/login" >>,
     << "https://example.com/login", "https://paypal-secure.com/account",
        "https://go0gle.paypal.com.evil.top/secure" >>}

(***************************************************************************)
(* The service: one request is handled at a time; a handler runs from the  *)
(* validated request to its response in one step.                          *)
(***************************************************************************)
VARIABLES
    config,     \* config.py's API keys, read once at import
    request,    \* the request being answered, None when idle
    response,   \* its response, None when idle
    call,       \* a scorer function applied on its own: None, or Some([fn, args, ret])
    work,       \* the steps taken for the request or the call at hand, in order
    earlier,    \* history: None, or Some of the first probe scan of the process, its
                \* response, and whether a request has been handled since
    \* engine/ml_model.py
    _model,         \* the module global: None, or Some(n) for the model the n-th load gave
    _model_loaded,  \* the module global
    _model_error,   \* the module global: None or Some(message)
    artifact,       \* the file at MODEL_PATH: "absent", "corrupt" or "ok"
    thread,         \* where each thread is in predict_phishing_probability, and its locals
    loads,          \* how many times the body of _load_model was entered (attempts), and
                    \* how many times joblib.load was executed (joblib)
    returned,       \* what the predict calls returned, in the order they returned
    overlapped      \* whether a predict call has started while another was running

svcvars == << config, request, response, call, work, earlier >>
mlvars == << _model, _model_loaded, _model_error, artifact, thread, loads, returned, overlapped >>
vars == << svcvars, mlvars >>

Configs ==
    [GOOGLE_SAFE_BROWSING_API_KEY : {"", "gsb-key"}, VIRUSTOTAL_API_KEY : {"", "vt-key"}]

\* what the feeds' HTTP exchanges can yield; a feed without its key makes no call
GsbReplies == {<<"error">>, <<"matches", 0>>, <<"matches", 1>>}
VtReplies == {<<"error">>, <<"404">>, <<"stats", 0, 0, 70>>, <<"stats", 40, 10, 20>>}
PtReplies == {<<"error">>, <<"results", TRUE, TRUE, TRUE>>, <<"results", TRUE, TRUE, FALSE>>}
UhReplies == {<<"error">>, <<"query_status", "listed">>, <<"query_status", "no_results">>}

Nets(cfg) ==
    [gsb : IF cfg.GOOGLE_SAFE_BROWSING_API_KEY = "" THEN {<<"no call">>} ELSE GsbReplies,
     vt : IF cfg.VIRUSTOTAL_API_KEY = "" THEN {<<"no call">>} ELSE VtReplies,
     pt : PtReplies,
     uh : UhReplies]

Reaches == {"up", "down"}

\* the threads that may call predict_phishing_probability, and how often each does
Threads == {1, 2}
MaxCalls == 2

\* ml_model.py at import; the repository has no file at MODEL_PATH until
\* training/train_model.py has been run
MlInit ==
    /\ _model = None
    /\ _model_loaded = FALSE
    /\ _model_error = None
    /\ artifact = "absent"
    /\ thread = [t \in Threads |-> [pc |-> "idle", calls |-> 0]]
    /\ loads = [attempts |-> 0, joblib |-> 0]
    /\ returned = << >>
    /\ overlapped = FALSE

Init ==
    /\ config \in Configs
    /\ request = None
    /\ response = None
    /\ call = None
    /\ work = << >>
    /\ earlier = None
    /\ MlInit

\* what the framework answers when a handler raises
ServerError == Some([status |-> 500, detail |-> "Internal Server Error"])

\* a scan_url whose indicator list outlives the call: once a scan has been kept, a scan
\* answers with the kept indicators before its own
UrlReply_accumulating(url, cfg, net, reach) ==
    IF urlparse_raises(url) THEN ServerError
    ELSE IF earlier = None
    THEN Some([status |-> 200, body |-> scan_url(url, cfg, net, reach)])
    ELSE Some([status |-> 200,
               body |-> [scan_url(url, cfg, net, reach) EXCEPT
                            !.indicators = earlier[1].reply[1].body.indicators \o @]])

\* the response to a validated url
UrlReply(url, cfg, net, reach) ==
    IF urlparse_raises(url) THEN ServerError
    ELSE Some([status |-> 200, body |-> scan_url(url, cfg, net, reach)])

\* the scans whose first occurrence the history keeps
ProbeUrls == {"http://paypa1-secure.xyz/login/verify"}

IsProbe(scan) ==
    /\ scan.url \in ProbeUrls
    /\ scan.reach = "down"
    /\ scan.net.gsb \in {<<"no call">>, <<"error">>}
    /\ scan.net.vt \in {<<"no call">>, <<"error">>}
    /\ scan.net.pt \in {<<"error">>, <<"results", TRUE, TRUE, TRUE>>}
    /\ scan.net.uh = <<"error">>

\* the history once one more request has been handled
Aged(e) == IF e = None THEN None ELSE Some([e[1] EXCEPT !.again = TRUE])

\* the history once scan has been answered with reply
Recorded(e, scan, reply) ==
    IF e # None THEN Aged(e)
    ELSE IF IsProbe(scan) THEN Some([scan |-> scan, reply |-> reply, again |-> FALSE])
    ELSE None

\* scan_url returns, or raises, and the framework answers
Answered(reply, scan) ==
    /\ response' = reply
    /\ earlier' = Recorded(earlier, scan, reply)

\* POST /scan/url: UrlScanRequest validates the body, then scan_url runs
ScanUrl ==
    /\ request = None /\ call = None
    /\ \E raw \in RawUrls :
        LET v == validate_url(raw)
        IN  IF ~v.ok
            THEN /\ request' = Some([endpoint |-> "/scan/url", url |-> raw])
                 /\ response' = Some([status |-> 422, detail |-> v.error])
                 /\ work' = << >>
                 /\ earlier' = Aged(earlier)
            ELSE \E net \in Nets(config), reach \in Reaches :
                    /\ request' = Some([endpoint |-> "/scan/url", url |-> raw,
                                        net |-> net, reach |-> reach])
                    /\ Answered(UrlReply(v.value, config, net, reach),
                                [url |-> v.value, net |-> net, reach |-> reach])
                    /\ work' = scan_url_steps(v.value, config)
    /\ UNCHANGED << config, call, mlvars >>

\* what the feeds yield while an email's urls are checked
EmailNets(cfg) ==
    {n \in Nets(cfg) : /\ n.gsb \in {<<"no call">>, <<"error">>}
                       /\ n.vt \in {<<"no call">>, <<"error">>}
                       /\ n.uh = <<"error">>}

\* the response to a validated content with the urls found in it
EmailReply(content, cfg, nets, urls) ==
    IF scan_email_raises(urls) THEN ServerError
    ELSE Some([status |-> 200, body |-> scan_email(content, cfg, nets)])

\* POST /scan/email: EmailScanRequest validates the body, then scan_email runs
ScanEmail ==
    /\ request = None /\ call = None
    /\ \E raw \in RawEmails :
        LET v == validate_content(raw)
        IN  IF ~v.ok
            THEN /\ request' = Some([endpoint |-> "/scan/email", content |-> raw])
                 /\ response' = Some([status |-> 422, detail |-> v.error])
                 /\ work' = << >>
            ELSE \E nets \in [1..Len(EmailTable[v.value].url_inds) -> EmailNets(config)] :
                    /\ request' = Some([endpoint |-> "/scan/email", content |-> raw,
                                        nets |-> nets])
                    /\ response' = EmailReply(v.value, config, nets,
                                              EmailTable[v.value].urls_in_email)
                    /\ work' = scan_email_steps(v.value, config,
                                                EmailTable[v.value].urls_in_email)
    /\ earlier' = Aged(earlier)
    /\ UNCHANGED << config, call, mlvars >>

\* what a url of a bulk request meets: the feeds' replies and whether its host is reached
BulkEnvs(cfg) ==
    [net : {n \in EmailNets(cfg) : n.pt \in {<<"error">>, <<"results", TRUE, TRUE, TRUE>>}},
     reach : {"down"}]

\* POST /scan/bulk: BulkScanRequest validates the body, then scan_bulk runs
ScanBulk ==
    /\ request = None /\ call = None
    /\ \E raw \in RawBulks :
        LET v == validate_urls(raw)
        IN  IF ~v.ok
            THEN /\ request' = Some([endpoint |-> "/scan/bulk", urls |-> raw])
                 /\ response' = Some([status |-> 422, detail |-> v.error])
                 /\ work' = << >>
            ELSE \E envs \in [1..Len(v.value) -> BulkEnvs(config)] :
                    /\ request' = Some([endpoint |-> "/scan/bulk", urls |-> raw,
                                        envs |-> envs])
                    /\ response' = Some([status |-> 200,
                                         body |-> scan_bulk(v.value, config, envs)])
                    /\ work' = scan_bulk_steps(v.value, config)
    /\ earlier' = Aged(earlier)
    /\ UNCHANGED << config, call, mlvars >>

(***************************************************************************)
(* The scorer's functions applied on their own, to arguments no scan need  *)
(* produce: call holds the function, its arguments and what it returned.   *)
(***************************************************************************)
MaxIndicators == 2
SeveritySteps == 2
ProbabilitySteps == 2
MaxFeeds == 3
ConfidenceSteps == 2
ScoreSteps == 4

\* the sequences over S of length at most n
SeqsUpTo(S, n) == UNION {[1..k -> S] : k \in 0..n}

\* severities in [0, 1], in hundredths
Severities == {(k * 100) \div SeveritySteps : k \in 0..SeveritySteps}

\* a domain-category, a second domain-category, a structural and an email indicator name
IndicatorNames ==
    {"IP Address Instead of Domain", "Brand Impersonation", "Missing HTTPS", "Generic Greeting"}

IndicatorPool ==
    [name : IndicatorNames, detected : {TRUE}, severity : Severities, explanation : {""}]
    \cup [name : IndicatorNames, detected : {FALSE}, severity : {100}, explanation : {""}]

\* probabilities in [0, 1], in ten-thousandths
Probabilities == {(k * 10000) \div ProbabilitySteps : k \in 0..ProbabilitySteps}

\* the classifier's result: absent, or available or not, with or without a probability
MlResults ==
    {None} \cup {Some(r) : r \in [available : BOOLEAN,
                                  probability : {None} \cup {Some(p) : p \in Probabilities}]}

\* confidences in [0, 1], in ten-thousandths
Confidences == {(k * 10000) \div ConfidenceSteps : k \in 0..ConfidenceSteps}

\* feed results: with unavailable set either way and any verdict, or without the key
FeedPool ==
    [api_name : {"feed"}, is_threat : BOOLEAN, confidence : Confidences,
     unavailable : BOOLEAN, error : {None}]
    \cup {[api_name |-> "feed", is_threat |-> TRUE, confidence |-> 10000]}

Scores == {(k * 100) \div ScoreSteps : k \in 0..ScoreSteps}

Called(fn, args, ret) == Some([fn |-> fn, args |-> args, ret |-> ret])

CallDomainScore ==
    /\ request = None /\ call = None
    /\ \E url_indicators \in SeqsUpTo(IndicatorPool, MaxIndicators), ml_result \in MlResults :
        call' = Called("compute_domain_score", << url_indicators, ml_result >>,
                       compute_domain_score(url_indicators, ml_result))
    /\ UNCHANGED << config, request, response, work, earlier, mlvars >>

CallStructuralScore ==
    /\ request = None /\ call = None
    /\ \E url_indicators \in SeqsUpTo(IndicatorPool, MaxIndicators) :
        call' = Called("compute_structural_score", << url_indicators >>,
                       compute_structural_score(url_indicators))
    /\ UNCHANGED << config, request, response, work, earlier, mlvars >>

CallLanguageScore ==
    /\ request = None /\ call = None
    /\ \E email_indicators \in SeqsUpTo(IndicatorPool, MaxIndicators) :
        call' = Called("compute_language_score", << email_indicators >>,
                       compute_language_score(email_indicators))
    /\ UNCHANGED << config, request, response, work, earlier, mlvars >>

CallApiScore ==
    /\ request = None /\ call = None
    /\ \E api_results \in SeqsUpTo(FeedPool, MaxFeeds) :
        call' = Called("compute_api_score", << api_results >>, compute_api_score(api_results))
    /\ UNCHANGED << config, request, response, work, earlier, mlvars >>

\* check_all_apis(url) on its own, under every outcome of the four exchanges
CallCheckAllApis ==
    /\ request = None /\ call = None
    /\ \E url \in {"https://www.google.com"}, net \in Nets(config) :
        /\ call' = Called("check_all_apis", << url, net >>, check_all_apis(config, net))
        /\ work' = check_all_apis_steps(config, url)
    /\ UNCHANGED << config, request, response, earlier, mlvars >>

\* sub-scores whose weighted sum is 30.5 or 60.5: the first two under WEIGHTS_FULL, the
\* last two under WEIGHTS_NO_API
ThresholdInputs == {<< 0, 2, 50, 100 >>, << 0, 82, 100, 100 >>, << 0, 25, 91, 0 >>, << 17, 92, 98, 0 >>}

CallOverallScore ==
    /\ request = None /\ call = None
    /\ \E in \in (Scores \X Scores \X Scores \X Scores) \cup ThresholdInputs, api_available \in BOOLEAN :
        call' = Called("compute_overall_score", << in[1], in[2], in[3], in[4], api_available >>,
                       compute_overall_score(in[1], in[2], in[3], in[4], api_available))
    /\ UNCHANGED << config, request, response, work, earlier, mlvars >>

Return ==
    /\ call # None
    /\ call' = None
    /\ work' = << >>
    /\ UNCHANGED << config, request, response, earlier, mlvars >>

\* the response leaves the server
Deliver ==
    /\ request # None
    /\ request' = None
    /\ response' = None
    /\ work' = << >>
    /\ UNCHANGED << config, call, earlier, mlvars >>

Next ==
    \/ ScanUrl
    \/ ScanEmail
    \/ ScanBulk
    \/ Deliver
    \/ CallDomainScore
    \/ CallStructuralScore
    \/ CallLanguageScore
    \/ CallApiScore
    \/ CallCheckAllApis
    \/ CallOverallScore
    \/ Return

Spec == Init /\ [][Next]_vars

(***************************************************************************)
(* engine/ml_model.py: predict_phishing_probability called from the        *)
(* threads of the server's pool.  No lock guards the three module globals, *)
(* so a step is one line of the module that reads or writes a global, and  *)
(* the threads' steps interleave freely.  The file at MODEL_PATH is the     *)
(* environment's and may change at any time.                                *)
(***************************************************************************)
\* the probabilities a model gives, in ten-thousandths
PredictedProbabilities == {1234, 9876}

At(t, pc) == thread[t].pc = pc

Goto(t, pc) == thread' = [thread EXCEPT ![t].pc = pc]

\* predict_phishing_probability(url) is called on thread t
Predict(t) ==
    /\ At(t, "idle")
    /\ thread[t].calls < MaxCalls
    /\ thread' = [thread EXCEPT ![t] = [pc |-> "16", calls |-> @.calls + 1]]
    /\ overlapped' = (overlapped \/ \E other \in Threads \ {t} : ~At(other, "idle"))
    /\ UNCHANGED << svcvars, _model, _model_loaded, _model_error, artifact, loads, returned >>

\* line 16: if _model_loaded: return
Line16(t) ==
    /\ At(t, "16")
    /\ IF _model_loaded
       THEN Goto(t, "44") /\ UNCHANGED loads
       ELSE Goto(t, "19") /\ loads' = [loads EXCEPT !.attempts = @ + 1]
    /\ UNCHANGED << svcvars, _model, _model_loaded, _model_error, artifact, returned, overlapped >>

\* line 19: if not os.path.exists(MODEL_PATH)
Line19(t) ==
    /\ At(t, "19")
    /\ Goto(t, IF artifact = "absent" THEN "20" ELSE "25")
    /\ UNCHANGED << svcvars, _model, _model_loaded, _model_error, artifact, loads, returned, overlapped >>

\* line 20 assigning the flag, so that the flag is set and the error is not
Line20_setting_flag_first(t) ==
    /\ At(t, "20")
    /\ _model_loaded' = TRUE
    /\ Goto(t, "21")
    /\ UNCHANGED << svcvars, _model, _model_error, artifact, loads, returned, overlapped >>

\* line 20: _model_error = "Model file not found ..."
Line20(t) ==
    /\ At(t, "20")
    /\ _model_error' = Some("Model file not found")
    /\ Goto(t, "21")
    /\ UNCHANGED << svcvars, _model, _model_loaded, artifact, loads, returned, overlapped >>

\* line 21: _model_loaded = True; return
Line21(t) ==
    /\ At(t, "21")
    /\ _model_loaded' = TRUE
    /\ Goto(t, "44")
    /\ UNCHANGED << svcvars, _model, _model_error, artifact, loads, returned, overlapped >>

\* line 25: _model = joblib.load(MODEL_PATH), which raises unless the file is a model
Line25(t) ==
    /\ At(t, "25")
    /\ loads' = [loads EXCEPT !.joblib = @ + 1]
    /\ IF artifact = "ok"
       THEN _model' = Some(loads.joblib + 1) /\ Goto(t, "26")
       ELSE UNCHANGED _model /\ Goto(t, "28")
    /\ UNCHANGED << svcvars, _model_loaded, _model_error, artifact, returned, overlapped >>

\* line 26: _model_loaded = True
Line26(t) ==
    /\ At(t, "26")
    /\ _model_loaded' = TRUE
    /\ Goto(t, "44")
    /\ UNCHANGED << svcvars, _model, _model_error, artifact, loads, returned, overlapped >>

\* line 28: _model_error = "Failed to load model: ..."
Line28(t) ==
    /\ At(t, "28")
    /\ _model_error' = Some("Failed to load model")
    /\ Goto(t, "29")
    /\ UNCHANGED << svcvars, _model, _model_loaded, artifact, loads, returned, overlapped >>

\* line 29 without its assignment
Line29_leaving_flag(t) ==
    /\ At(t, "29")
    /\ Goto(t, "44")
    /\ UNCHANGED << svcvars, _model, _model_loaded, _model_error, artifact, loads, returned, overlapped >>

\* line 29: _model_loaded = True
Line29(t) ==
    /\ At(t, "29")
    /\ _model_loaded' = TRUE
    /\ Goto(t, "44")
    /\ UNCHANGED << svcvars, _model, _model_error, artifact, loads, returned, overlapped >>

\* line 44: if _model is None
Line44(t) ==
    /\ At(t, "44")
    /\ Goto(t, IF _model = None THEN "48" ELSE "55")
    /\ UNCHANGED << svcvars, _model, _model_loaded, _model_error, artifact, loads, returned, overlapped >>

\* the call of thread t returns value, computed with the model used
Returns(t, value, used) ==
    /\ returned' = Append(returned, [value |-> value, used |-> used])
    /\ Goto(t, "idle")

\* lines 45-49: the result without a model, with _model_error as it is now
Line48(t) ==
    /\ At(t, "48")
    /\ Returns(t, [probability |-> None, available |-> FALSE, error |-> _model_error], None)
    /\ UNCHANGED << svcvars, _model, _model_loaded, _model_error, artifact, loads, overlapped >>

\* lines 51-67: the url and the model decide whether extract_url_features or
\* predict_proba raises, and which probability the model gives; an exception is caught
\* at line 62
Line55(t) ==
    /\ At(t, "55")
    /\ \/ \E p \in PredictedProbabilities :
            Returns(t, [probability |-> Some(p), available |-> TRUE, error |-> None], _model)
       \/ Returns(t, [probability |-> None, available |-> FALSE,
                      error |-> Some("Prediction failed")], _model)
    /\ UNCHANGED << svcvars, _model, _model_loaded, _model_error, artifact, loads, overlapped >>

\* the file at MODEL_PATH is written, damaged or removed
ArtifactChanges ==
    /\ \E state \in {"absent", "corrupt", "ok"} \ {artifact} : artifact' = state
    /\ UNCHANGED << svcvars, _model, _model_loaded, _model_error, thread, loads, returned, overlapped >>

\* a step of the call that thread t is in
Proceed(t) ==
    \/ Line16(t)
    \/ Line19(t)
    \/ Line20(t)
    \/ Line21(t)
    \/ Line25(t)
    \/ Line26(t)
    \/ Line28(t)
    \/ Line29(t)
    \/ Line44(t)
    \/ Line48(t)
    \/ Line55(t)

MlNext ==
    \/ ArtifactChanges
    \/ \E t \in Threads : Predict(t) \/ Proceed(t)

\* the classifier reads neither key, so one configuration stands for all
MlInit0 == Init /\ config = [GOOGLE_SAFE_BROWSING_API_KEY |-> "", VIRUSTOTAL_API_KEY |-> ""]

MlSpec == MlInit0 /\ [][MlNext]_vars

(***************************************************************************)
(* Properties                                                              *)
(***************************************************************************)
\* the scorer function fn has been applied and has returned
Applied(fn) == call # None /\ call[1].fn = fn

\* a scan has been answered with its result
Scanned ==
    /\ response # None
    /\ request[1].endpoint \in {"/scan/url", "/scan/email"}
    /\ response[1].status = 200

IsScore(x) == x \in 0..100

\* C1: for indicator lists with severities in [0,1], any classifier result and any feed
\* results with confidence in [0,1], each of the four sub-scores and the overall score
\* the scorer returns is an integer in 0..100
C1_ScoresInRange ==
    /\ Applied("compute_domain_score") => IsScore(call[1].ret)
    /\ Applied("compute_structural_score") => IsScore(call[1].ret)
    /\ Applied("compute_language_score") => IsScore(call[1].ret)
    /\ Applied("compute_api_score") => IsScore(call[1].ret[1])
    /\ Applied("compute_overall_score") => IsScore(call[1].ret[1])
    /\ Scanned =>
        /\ IsScore(response[1].body.overall_score)
        /\ \A k \in DOMAIN response[1].body.sub_scores : IsScore(response[1].body.sub_scores[k])

\* every available feed flags a threat with full confidence: the api score is at its maximum
C1_Witness ==
    /\ Applied("compute_api_score")
    /\ Len(call[1].args[1]) = 2
    /\ \A k \in 1..2 : /\ ~GetUnavailable(call[1].args[1][k])
                       /\ call[1].args[1][k].is_threat
                       /\ call[1].args[1][k].confidence = 10000
    /\ call[1].ret = << 100, TRUE >>

\* the label the thresholds 30 and 60 give to an overall score
LabelOf(overall) ==
    IF overall <= 30 THEN "safe" ELSE IF overall <= 60 THEN "suspicious" ELSE "dangerous"

\* C2: the label compute_overall_score returns is a function of the returned overall score
\* only: 'safe' when overall <= 30, 'suspicious' when 30 < overall <= 60, 'dangerous' when
\* overall > 60; a successful scan of a url or of an email carries no other label
C2_LabelByThresholds ==
    /\ Applied("compute_overall_score") => call[1].ret[2] = LabelOf(call[1].ret[1])
    /\ Scanned => /\ response[1].body.label = LabelOf(response[1].body.overall_score)
                  /\ response[1].body.label \in {"safe", "suspicious", "dangerous"}

\* an overall score on the threshold itself
C2_Witness ==
    /\ Applied("compute_overall_score")
    /\ call[1].ret = << 30, "safe" >>

\* C3: when api_available is false, the overall score and label do not depend on the
\* api_score argument: every api_score in 0..100 gives the same (overall, label)
C3_ApiScoreIgnored ==
    (Applied("compute_overall_score") /\ ~call[1].args[5]) =>
        \A api_score \in 0..100 :
            compute_overall_score(call[1].args[1], call[1].args[2], call[1].args[3],
                                  api_score, FALSE) = call[1].ret

\* the largest api score and nothing else: the overall score is 0
C3_Witness ==
    /\ Applied("compute_overall_score")
    /\ call[1].args = << 0, 0, 0, 100, FALSE >>
    /\ call[1].ret = << 0, "safe" >>

\* the sum of a weight table, in hundredths
WeightSum(w) == w.domain + w.structural + w.language + w.api

\* the overall score the weights w give, rounded and clamped
Weighted(w, d, s, l, a) ==
    ClampRound(d * w.domain + s * w.structural + l * w.language + a * w.api, 100)

\* C4: both weight tables (0.35/0.25/0.20/0.20 and 0.44/0.31/0.25/0.0) sum to exactly 1.0,
\* and compute_overall_score uses the second one exactly when api_available is false
C4_WeightTables ==
    /\ WEIGHTS_FULL = [domain |-> 35, structural |-> 25, language |-> 20, api |-> 20]
    /\ WEIGHTS_NO_API = [domain |-> 44, structural |-> 31, language |-> 25, api |-> 0]
    /\ WeightSum(WEIGHTS_FULL) = 100
    /\ WeightSum(WEIGHTS_NO_API) = 100
    /\ Applied("compute_overall_score") =>
        LET a == call[1].args
        IN  call[1].ret[1] =
                Weighted(IF a[5] THEN [domain |-> 35, structural |-> 25, language |-> 20, api |-> 20]
                         ELSE [domain |-> 44, structural |-> 31, language |-> 25, api |-> 0],
                         a[1], a[2], a[3], a[4])

\* a call the two tables score differently, scored by the second
C4_Witness ==
    /\ Applied("compute_overall_score")
    /\ call[1].args = << 100, 0, 0, 100, FALSE >>
    /\ call[1].ret[1] = 44

\* the feed results of rs that carry unavailable = false
AvailableIn(rs) == {k \in 1..Len(rs) : "unavailable" \in DOMAIN rs[k] /\ rs[k].unavailable = FALSE}

\* those among them that flag a threat
ThreatsIn(rs) == {k \in AvailableIn(rs) : rs[k].is_threat}

\* C5: compute_api_score returns (0, false) if and only if no feed result of its input has
\* unavailable = false (the empty list included); it returns (0, true) when some feed is
\* available and no available feed has is_threat = true
C5_ApiAvailability ==
    Applied("compute_api_score") =>
        LET rs == call[1].args[1]
        IN  /\ (call[1].ret = << 0, FALSE >>) <=> (AvailableIn(rs) = {})
            /\ (AvailableIn(rs) # {} /\ ThreatsIn(rs) = {}) => call[1].ret = << 0, TRUE >>

\* a result without the unavailable key, flagging a threat, next to an unavailable one
C5_Witness ==
    /\ Applied("compute_api_score")
    /\ Len(call[1].args[1]) = 2
    /\ "unavailable" \notin DOMAIN call[1].args[1][1]
    /\ call[1].args[1][1].is_threat
    /\ "unavailable" \in DOMAIN call[1].args[1][2]
    /\ call[1].args[1][2].unavailable
    /\ call[1].ret = << 0, FALSE >>

\* the sum of the confidences of the results of rs at the indices of K
RECURSIVE ConfidenceOver(_, _)
ConfidenceOver(rs, K) ==
    IF K = {} THEN 0
    ELSE LET k == CHOOSE j \in K : TRUE
         IN  rs[k].confidence + ConfidenceOver(rs, K \ {k})

\* C6: when an available feed flags a threat, compute_api_score returns
\* round(clamp(threatCount/availableCount * 60 + (sum of the threat-flagging available
\* feeds' confidence / threatCount) * 40)) with available = true; one feed flagging with
\* confidence 1.0 out of 2 available feeds gives exactly 70
C6_ThreatFormula ==
    Applied("compute_api_score") =>
        LET rs == call[1].args[1]
            threatCount == Cardinality(ThreatsIn(rs))
            availableCount == Cardinality(AvailableIn(rs))
            confidence == ConfidenceOver(rs, ThreatsIn(rs))
            \* threatCount/availableCount * 60 + confidence/10000/threatCount * 40
            num == 60 * threatCount * threatCount * 10000 + 40 * confidence * availableCount
            den == availableCount * threatCount * 10000
        IN  /\ threatCount > 0 =>
                call[1].ret = << Min(100, Max(0, PyRound(num, den))), TRUE >>
            /\ (threatCount = 1 /\ availableCount = 2 /\ confidence = 10000) =>
                call[1].ret = << 70, TRUE >>

\* one of two available feeds flags a threat with confidence 1.0, a third feed is unavailable
C6_Witness ==
    /\ Applied("compute_api_score")
    /\ Len(call[1].args[1]) = 3
    /\ Cardinality(AvailableIn(call[1].args[1])) = 2
    /\ Cardinality(ThreatsIn(call[1].args[1])) = 1
    /\ ConfidenceOver(call[1].args[1], ThreatsIn(call[1].args[1])) = 10000
    /\ call[1].ret = << 70, TRUE >>

\* rs with the verdict of every unavailable = true record blanked
Blanked(rs) ==
    [k \in 1..Len(rs) |->
        IF "unavailable" \in DOMAIN rs[k] /\ rs[k].unavailable
        THEN [rs[k] EXCEPT !.is_threat = FALSE, !.confidence = 0]
        ELSE rs[k]]

\* C7: the is_threat and confidence of a feed result with unavailable = true never
\* influence aggregation: lists that differ only in those fields of unavailable records
\* give the same (api score, api_available), hence the same overall score and label
C7_UnavailableIgnored ==
    Applied("compute_api_score") =>
        LET other == compute_api_score(Blanked(call[1].args[1]))
        IN  /\ call[1].ret = other
            /\ \A d \in Scores :
                compute_overall_score(d, d, d, call[1].ret[1], call[1].ret[2])
                    = compute_overall_score(d, d, d, other[1], other[2])

\* an unavailable record flags a threat with full confidence next to a clean available one
C7_Witness ==
    /\ Applied("compute_api_score")
    /\ Len(call[1].args[1]) = 2
    /\ call[1].args[1][1] = [api_name |-> "feed", is_threat |-> TRUE, confidence |-> 10000,
                             unavailable |-> TRUE, error |-> None]
    /\ call[1].args[1][2] = [api_name |-> "feed", is_threat |-> FALSE, confidence |-> 0,
                             unavailable |-> FALSE, error |-> None]
    /\ call[1].ret = << 0, TRUE >>

\* the five domain-category indicator names
DomainCategory ==
    {"IP Address Instead of Domain", "Suspicious Top-Level Domain", "Brand Impersonation",
     "Excessive Subdomains", "URL Shortener Detected"}

\* C8: compute_domain_score returns exactly 0 for every indicator list without a
\* domain-category indicator when the classifier result is absent or has available = false,
\* whatever structural or email indicators the list holds
C8_NoDomainEvidence ==
    Applied("compute_domain_score") =>
        LET inds == call[1].args[1]
            ml == call[1].args[2]
        IN  (/\ \A k \in 1..Len(inds) : inds[k].name \notin DomainCategory
             /\ ml = None \/ ~ml[1].available)
            => call[1].ret = 0

\* a structural and an email indicator at full severity, and a classifier that is not
\* available but carries a probability
C8_Witness ==
    /\ Applied("compute_domain_score")
    /\ Len(call[1].args[1]) = 2
    /\ call[1].args[1][1] = [name |-> "Missing HTTPS", detected |-> TRUE, severity |-> 100,
                             explanation |-> ""]
    /\ call[1].args[1][2] = [name |-> "Generic Greeting", detected |-> TRUE, severity |-> 100,
                             explanation |-> ""]
    /\ call[1].args[2] = Some([available |-> FALSE, probability |-> Some(10000)])
    /\ call[1].ret = 0

\* the url has been scanned while no feed was available
ScannedWithoutFeeds(url) ==
    /\ Scanned
    /\ response[1].body.scan_type = "url"
    /\ response[1].body.scanned_input = url
    /\ \A name \in DOMAIN response[1].body.api_status :
        response[1].body.api_status[name] = "unavailable"

\* C9, as the spec states it: scanning http://192.168.1.1/banking/login with every feed
\* unavailable and the thresholds 30/60 yields the label 'dangerous'
C9_Original ==
    ScannedWithoutFeeds("http://192.168.1.1/banking/login")
        => response[1].body.label = "dangerous"

\* C9, amended: scanning http://192.168.1.1/banking/login with every feed unavailable and
\* the thresholds 30/60 yields domain 60, structural 54, overall 43 and the label 'suspicious'
C9_IpBankingSuspicious ==
    ScannedWithoutFeeds("http://192.168.1.1/banking/login") =>
        /\ SAFE_THRESHOLD = 30 /\ SUSPICIOUS_THRESHOLD = 60
        /\ response[1].body.sub_scores.domain = 60
        /\ response[1].body.sub_scores.structural = 54
        /\ response[1].body.overall_score = 43
        /\ response[1].body.label = "suspicious"

C9_Witness ==
    /\ ScannedWithoutFeeds("http://192.168.1.1/banking/login")
    /\ request[1].net.pt = << "error" >>
    /\ response[1].body.sub_scores.api_reputation = 0

\* the (name, severity) of the domain-category indicators among inds
DomainIndicators(inds) ==
    { << inds[k].name, inds[k].severity >> :
        k \in {j \in 1..Len(inds) : inds[j].detected /\ inds[j].name \in DomainCategory} }

\* C10: scanning http://paypa1-secure.xyz/login/verify fires Brand Impersonation (0.95) and
\* Suspicious Top-Level Domain (0.7) as its only domain-category indicators, and the domain
\* sub-score (no classifier evidence) is strictly greater than 80
C10_Typosquat ==
    (Scanned /\ response[1].body.scan_type = "url"
             /\ response[1].body.scanned_input = "http://paypa1-secure.xyz/login/verify") =>
        /\ DomainIndicators(analyze_url_heuristics(response[1].body.scanned_input))
            = { << "Brand Impersonation", 95 >>, << "Suspicious Top-Level Domain", 70 >> }
        /\ { response[1].body.indicators[k].name : k \in 1..Len(response[1].body.indicators) }
                \cap DomainCategory
            = { "Brand Impersonation", "Suspicious Top-Level Domain" }
        /\ response[1].body.ml_status = "disabled"
        /\ response[1].body.sub_scores.domain > 80

C10_Witness ==
    /\ Scanned
    /\ response[1].body.scan_type = "url"
    /\ response[1].body.scanned_input = "http://paypa1-secure.xyz/login/verify"
    /\ response[1].body.sub_scores.domain = 81
\* every feed of the exchange answered, and none flagged a threat
AllFeedsClean(cfg, net) ==
    \A k \in 1..Len(check_all_apis(cfg, net)) :
        /\ ~check_all_apis(cfg, net)[k].unavailable
        /\ ~check_all_apis(cfg, net)[k].is_threat

\* a url scan of https://www.google.com whose four feeds all answered "no threat"
GoogleScannedClean ==
    /\ Scanned
    /\ request[1].endpoint = "/scan/url"
    /\ response[1].body.scanned_input = "https://www.google.com"
    /\ AllFeedsClean(config, request[1].net)

\* C11: scanning https://www.google.com with every reputation feed available and reporting
\* no threat fires no heuristic indicator and yields all four sub-scores 0, overall score 0
\* and label 'safe'
C11_GoogleSafe ==
    GoogleScannedClean =>
        /\ analyze_url_heuristics(response[1].body.scanned_input) = << >>
        /\ response[1].body.indicators = << >>
        /\ response[1].body.sub_scores =
              [domain |-> 0, structural |-> 0, language |-> 0, api_reputation |-> 0]
        /\ response[1].body.overall_score = 0
        /\ response[1].body.label = "safe"

\* such a scan, with all four feeds shown as available and VirusTotal knowing the url
C11_Witness ==
    /\ GoogleScannedClean
    /\ \A name \in {"google_safe_browsing", "virustotal", "phishtank", "urlhaus"} :
          response[1].body.api_status[name] = "available"
    /\ request[1].net.vt = <<"stats", 0, 0, 70>>
    /\ response[1].body.label = "safe"


EmailRequested == request # None /\ request[1].endpoint = "/scan/email"

\* C13: scanEmail rejects, before any scoring step is taken, every content that has fewer
\* than 10 characters once its leading and trailing whitespace is removed (the empty and
\* the all-whitespace content included), and accepts every content that has 10 or more:
\* the handler then runs on the trimmed content.
C13_EmailMinLength ==
    EmailRequested =>
        IF Len(Strip(request[1].content)) < 10
        THEN response[1].status = 422 /\ work = << >>
        ELSE /\ response[1].status # 422
             /\ work # << >>
             /\ work[1] = Step("analyze_email_heuristics", Strip(request[1].content))
             /\ response[1].status = 200 =>
                    StartsWith(response[1].body.scanned_input,
                               Take(Strip(request[1].content), 200))

C13_Witness ==
    /\ EmailRequested
    /\ request[1].content = " 0123456789 "
    /\ Len(Strip(request[1].content)) = 10
    /\ response[1].status = 200
    /\ response[1].body.label = "safe"

BulkRequested == request # None /\ request[1].endpoint = "/scan/bulk"

\* C12: a bulk request whose list has more than 10 entries is rejected as a whole by the
\* validation (status 422), and no step of a scan is taken for any of its urls: no
\* heuristics, no feed check, no intel lookup.
C12_BulkLimit ==
    (BulkRequested /\ Len(request[1].urls) > 10) =>
        /\ response[1].status = 422
        /\ work = << >>

C12_Witness ==
    /\ BulkRequested
    /\ Len(request[1].urls) = 11
    /\ Len(Cleaned(request[1].urls)) = 1
    /\ response[1] = [status |-> 422, detail |-> "Maximum 10 URLs per bulk scan"]
    /\ work = << >>

BulkScanned == BulkRequested /\ response[1].status = 200

\* UrlScanRequest or scan_url raises on url
Fails(url) == ~validate_url(url).ok \/ urlparse_raises(validate_url(url).value)

\* the indices of the results that are not error records
Scored(results) == {k \in 1..Len(results) : results[k].label # "error"}

RECURSIVE SumAt(_, _)
SumAt(results, K) ==
    IF K = {} THEN 0
    ELSE LET k == CHOOSE x \in K : TRUE
         IN  results[k].overall_score + SumAt(results, K \ {k})

\* the batch of urls was answered with results and summary: one result per url in the
\* order of the list, an error record for each url that fails and a scan for every
\* other, the summary being over the scans alone
BatchAnswered(urls, envs, results, summary) ==
    /\ Len(results) = Len(urls)
    /\ \A k \in 1..Len(urls) :
        IF Fails(urls[k])
        THEN /\ results[k].label = "error"
             /\ IsNone(results[k].overall_score)
             /\ results[k].scanned_input = urls[k]
        ELSE /\ results[k].label \in {"safe", "suspicious", "dangerous"}
             /\ results[k].overall_score \in 0..100
             /\ results[k].scanned_input = validate_url(urls[k]).value
             /\ results[k] = scan_url(validate_url(urls[k]).value, config,
                                      envs[k].net, envs[k].reach)
    /\ summary.total = Len(urls)
    /\ summary.scanned = Cardinality(Scored(results))
    /\ summary.errors = Len(urls) - Cardinality(Scored(results))
    /\ summary.avg_score = IF Scored(results) = {} THEN 0
                           ELSE PyRound(SumAt(results, Scored(results)),
                                        Cardinality(Scored(results)))
    /\ \A k \in Scored(results) : results[k].overall_score <= summary.highest_risk
    /\ summary.highest_risk \in {0} \cup {results[k].overall_score : k \in Scored(results)}
    /\ \A label \in {"safe", "suspicious", "dangerous"} :
        summary.distribution[label]
            = Cardinality({k \in Scored(results) : results[k].label = label})

\* every url that passes validation was scanned, in the order of the list
SiblingsScanned(urls, steps) ==
    SelectSeq(steps, LAMBDA st : st.op = "analyze_url_heuristics")
        = [k \in 1..Len(SelectSeq(urls, LAMBDA u : validate_url(u).ok)) |->
            Step("analyze_url_heuristics",
                 validate_url(SelectSeq(urls, LAMBDA u : validate_url(u).ok)[k]).value)]

\* C14: in scanBulk a url that fails, in validation or by an exception of its scan, does
\* not abort the batch: there is one result per url of the accepted list, in input order;
\* the failed url has a record with label "error" and no overall_score; the other urls
\* are scanned; and avg_score, highest_risk and the distribution are over the scanned
\* urls alone.
C14_BulkIsolation ==
    BulkScanned =>
        /\ BatchAnswered(validate_urls(request[1].urls).value, request[1].envs,
                         response[1].body.results, response[1].body.summary)
        /\ SiblingsScanned(validate_urls(request[1].urls).value, work)

C14_Witness ==
    /\ BulkScanned
    /\ Len(response[1].body.results) = 3
    /\ response[1].body.results[2].label = "error"
    /\ IsNone(response[1].body.results[2].overall_score)
    /\ response[1].body.results[1].label = "safe"
    /\ response[1].body.results[3].label \in {"suspicious", "dangerous"}
    /\ response[1].body.summary.errors = 1
    /\ response[1].body.summary.scanned = 2

\* how many steps of the work at hand are the step st
Times(st) == Len(SelectSeq(work, LAMBDA x : x = st))

FeedNames == << "google_safe_browsing", "virustotal", "phishtank", "urlhaus" >>

\* the k-th feed fails or is not configured, under the keys cfg and the outcomes net
FeedFails(k, cfg, net) ==
    CASE k = 1 -> cfg.GOOGLE_SAFE_BROWSING_API_KEY = "" \/ net.gsb = << "error" >>
      [] k = 2 -> cfg.VIRUSTOTAL_API_KEY = "" \/ net.vt = << "error" >>
      [] k = 3 -> net.pt = << "error" >>
      [] k = 4 -> net.uh = << "error" >>

\* the outcome of the k-th feed's own exchange
OwnOutcome(k, net) ==
    CASE k = 1 -> net.gsb [] k = 2 -> net.vt [] k = 3 -> net.pt [] k = 4 -> net.uh

\* C18: whatever the outcomes of the four feeds (a reply, a failure of the exchange, a
\* missing key), check_all_apis calls each of the four checks once, no check makes a second
\* request, and it returns four results in the order google_safe_browsing, virustotal,
\* phishtank, urlhaus; the result of a feed that failed or is not configured has
\* unavailable = TRUE and an error string, and the result of a feed is the same under every
\* outcome of the other three.
C18_CheckAllIsolated ==
    Applied("check_all_apis") =>
        /\ Len(call[1].ret) = 4
        /\ \A k \in 1..4 :
            /\ call[1].ret[k].api_name = FeedNames[k]
            /\ Times(Step("check_" \o FeedNames[k], call[1].args[1])) = 1
            /\ Times(Step("http", FeedNames[k])) <= 1
            /\ FeedFails(k, config, call[1].args[2]) <=> call[1].ret[k].unavailable
            /\ call[1].ret[k].unavailable =>
                    /\ call[1].ret[k].error # None
                    /\ call[1].ret[k].error[1] # ""
                    /\ ~call[1].ret[k].is_threat
            /\ \A other \in Nets(config) :
                    OwnOutcome(k, other) = OwnOutcome(k, call[1].args[2]) =>
                        check_all_apis(config, other)[k] = call[1].ret[k]
        /\ Len(work) = 4 + Len(SelectSeq(work, LAMBDA st : st.op = "http"))

C18_Witness ==
    /\ Applied("check_all_apis")
    /\ config.GOOGLE_SAFE_BROWSING_API_KEY # ""
    /\ config.VIRUSTOTAL_API_KEY = ""
    /\ call[1].args[2].gsb = << "error" >>
    /\ call[1].args[2].pt = << "results", TRUE, TRUE, TRUE >>
    /\ call[1].ret[1].unavailable /\ call[1].ret[2].unavailable
    /\ call[1].ret[3].is_threat
    /\ ~call[1].ret[4].unavailable

\* the names of the indicators inds, each once, in the order of their first occurrence
FirstNames(inds) ==
    LET firsts == {k \in 1..Len(inds) : \A j \in 1..(k - 1) : inds[j].name # inds[k].name}
    IN  [k \in 1..Cardinality(firsts) |->
            inds[CHOOSE i \in firsts : Cardinality({j \in firsts : j <= i}) = k].name]

\* the entries of the content table for names, the names that the table lacks skipped
Explained(names) ==
    LET known == SelectSeq(names, LAMBDA name : name \in DOMAIN education_map)
    IN  [k \in 1..Len(known) |-> education_map[known[k]]]

ClosingTip(label) == IF label = "safe" THEN SafeTip ELSE RiskTip

\* C19: the education list of a scan, of a url or of an email with the indicators of its
\* text and of its first five urls, has one entry for each name of a detected indicator
\* that the content table has, in the order in which the names first occur, and no name
\* twice; after them it has one closing tip, the safe tip when the label is "safe" and the
\* risk tip when it is "suspicious" or "dangerous".
C19_EducationDeduplicated ==
    Scanned =>
        response[1].body.education
            = Append(Explained(FirstNames(response[1].body.indicators)),
                     ClosingTip(response[1].body.label))

\* an email scan whose education list has the same entry twice
C19_Repeated ==
    /\ Scanned
    /\ request[1].endpoint = "/scan/email"
    /\ \E j, k \in 1..Len(response[1].body.education) :
        /\ j < k
        /\ response[1].body.education[j] = response[1].body.education[k]
        /\ response[1].body.education[j] = education_map["Missing HTTPS"]

\* the url scan that is answered has the url and the outcomes of the scan the history keeps
SameScanAsEarlier ==
    /\ earlier # None
    /\ request # None
    /\ request[1].endpoint = "/scan/url"
    /\ response[1].status # 422
    /\ validate_url(request[1].url).value = earlier[1].scan.url
    /\ request[1].net = earlier[1].scan.net
    /\ request[1].reach = earlier[1].scan.reach

C15_LoadOnce ==
    ~overlapped =>
        /\ loads.attempts <= 1
        /\ loads.joblib <= 1
        /\ returned # << >> => loads.attempts = 1
        /\ \A k \in 2..Len(returned) :
            /\ returned[k].used = returned[1].used
            /\ returned[1].used = None => returned[k].value = returned[1].value

C15_Witness ==
    /\ ~overlapped
    /\ Len(returned) >= 2
    /\ returned[1].value.error = Some("Failed to load model")
    /\ returned[2].value = returned[1].value
    /\ artifact = "ok"
    /\ loads = [attempts |-> 1, joblib |-> 1]
    /\ _model = None

\* C16: in every interleaving of concurrent predict calls, joblib.load is executed at most
\* once in the life of the process.
C16_LoadedOnce == loads.joblib <= 1

\* two first calls have both passed line 16 before either set the flag, and both loaded
C16_LoadedTwice ==
    /\ loads.joblib = 2
    /\ _model = Some(2)
    /\ \A t \in Threads : thread[t].calls = 1

\* value is one of the two results the contract allows, used being the model it was
\* computed with
WellFormed(value, used) ==
    \/ /\ value.available
       /\ value.probability # None
       /\ value.error = None
       /\ used # None /\ used[1] \in 1..loads.joblib
    \/ /\ ~value.available
       /\ value.probability = None
       /\ value.error # None /\ value.error[1] # ""

\* C17: in every interleaving of concurrent predict calls, whatever the load and the
\* prediction came to, a call that has started can always take its next step up to its
\* return (no exception leaves it), what it returns is either available = TRUE with a
\* probability, no error and a model that joblib.load returned, or available = FALSE with
\* no probability and a non-empty error; and the flag _model_loaded is never set while
\* both _model and _model_error are None.
C17_PredictContract ==
    /\ \A k \in 1..Len(returned) : WellFormed(returned[k].value, returned[k].used)
    /\ \A t \in Threads : ~At(t, "idle") => ENABLED Proceed(t)
    /\ \A t \in Threads : At(t, "48") => _model_error # None
    /\ _model_loaded => (_model # None \/ _model_error # None)

C17_Witness ==
    /\ overlapped
    /\ loads.joblib = 2
    /\ \E j, k \in 1..Len(returned) :
        /\ returned[j].value.available
        /\ returned[k].value.error = Some("Failed to load model")
    /\ \E k \in 1..Len(returned) : returned[k].value.error = Some("Prediction failed")

UrlRequested == request # None /\ request[1].endpoint = "/scan/url"

\* raw, stripped, with "http://" before it when it starts with neither scheme
Normalized(raw) ==
    IF StartsWith(Strip(raw), "http://") \/ StartsWith(Strip(raw), "https://")
    THEN Strip(raw) ELSE "http://" \o Strip(raw)

\* what stands between the scheme of the normalized url v and its port or path
HostPart(v) ==
    LET rest == From(v, Find(v, "://") + 3)
        ends == {i \in 1..Len(rest) : CharAt(rest, i) \in {":", "/"}}
    IN  IF ends = {} THEN rest
        ELSE Slice(rest, 1, (CHOOSE i \in ends : \A j \in ends : i <= j) - 1)

\* a hostname of labels of letters, digits and hyphens, or a dotted quad
ValidHost(h) == h # "" /\ (IsLabels(h) \/ IsDottedQuad(h))

\* C21: scanUrl scans its input stripped and with "http://" before it when it has no
\* http or https scheme, and it rejects, with no heuristic, feed or intel step taken,
\* every input whose host part is not a valid hostname or dotted quad; a rejected input
\* is not scored in part.
C21_InvalidHostRejected ==
    UrlRequested =>
        /\ response[1].status = 200 =>
                response[1].body.scanned_input = Normalized(request[1].url)
        /\ response[1].status = 422 => work = << >>
        /\ ~ValidHost(HostPart(Normalized(request[1].url))) =>
                response[1].status = 422 /\ work = << >>

\* a url whose host is followed by a space is scanned
C21_InvalidHostScanned ==
    /\ UrlRequested
    /\ request[1].url = "http://exa mple.com"
    /\ ~ValidHost(HostPart(Normalized(request[1].url)))
    /\ response[1].status = 200
    /\ work # << >>

\* num/den rounded to the nearest integer, a tie away from zero (num >= 0, den > 0)
HalfUp(num, den) == (2 * num + den) \div (2 * den)

\* the weighted sum of compute_overall_score's arguments, in hundredths
WeightedSum(args) ==
    LET weights == IF args[5] THEN WEIGHTS_FULL ELSE WEIGHTS_NO_API
    IN  args[1] * weights.domain + args[2] * weights.structural
          + args[3] * weights.language + args[4] * weights.api

\* the detected indicators of a list that belong to a set of names
Counted(indicators, names) == SelectSeq(indicators, LAMBDA ind : ind.name \in names /\ ind.detected)

\* C22: every sub-score and the overall score is its unrounded value rounded to the
\* nearest integer with a tie going away from zero: an unrounded k + 0.5 gives k + 1,
\* so 30.5 gives 31 with the label 'suspicious' and 60.5 gives 61 with 'dangerous'
C22_TiesRoundUp ==
    /\ Applied("compute_overall_score") =>
          /\ call[1].ret[1] = Min(100, HalfUp(WeightedSum(call[1].args), 100))
          /\ WeightedSum(call[1].args) = 3050 => call[1].ret = << 31, "suspicious" >>
          /\ WeightedSum(call[1].args) = 6050 => call[1].ret = << 61, "dangerous" >>
    /\ Applied("compute_structural_score") =>
          LET relevant == Counted(call[1].args[1], structural_names)
          IN  relevant # << >> =>
                call[1].ret = Min(100, HalfUp(BlendedScore(relevant).num, BlendedScore(relevant).den))
    /\ Applied("compute_language_score") =>
          LET relevant == SelectSeq(call[1].args[1], LAMBDA ind : ind.detected)
              n == Len(relevant)
          IN  relevant # << >> =>
                call[1].ret = Min(100, HalfUp(SumSeverity(relevant) * Min(10, 2 * n), 10 * n))

\* the sub-scores 0, 2, 50 and 100 with the reputation layer available: 30.5 before rounding
C22_ThirtyPointFiveIsSafe ==
    /\ Applied("compute_overall_score")
    /\ call[1].args = << 0, 2, 50, 100, TRUE >>
    /\ WeightedSum(call[1].args) = 3050
    /\ call[1].ret = << 30, "safe" >>

\* (0.6*max + 0.4*avg) * 100 * min(1, 0.5 + 0.2*count) over a list of indicators that is
\* not empty, as a fraction; without indicators the heuristic score is 0
HeuristicScore(relevant) ==
    LET count == Len(relevant)
        highest == CHOOSE m \in {relevant[k].severity : k \in 1..count} :
                       \A k \in 1..count : relevant[k].severity <= m
    IN  IF count = 0 THEN [num |-> 0, den |-> 1]
        ELSE [num |-> (6 * highest * count + 4 * SumSeverity(relevant)) * Min(10, 5 + 2 * count),
              den |-> 100 * count]

\* score is an integer nearest to num/den
Nearest(score, num, den) ==
    /\ score \in 0..100
    /\ 2 * score * den <= 2 * num + den
    /\ 2 * score * den >= 2 * num - den

UrlScanned == Scanned /\ request[1].endpoint = "/scan/url"

\* the positions in a list of indicators of those with one of the names
PositionsOf(indicators, names) == {k \in 1..Len(indicators) : indicators[k].name \in names}

\* the path of the url contains one of the suspicious keywords
PathHasKeyword(url) ==
    \E k \in 1..Len(suspicious_paths) : Contains(Lower(urlparse(url).path), suspicious_paths[k])

\* the urls a scan can answer for
ScannedUrls == {Normalized(raw) : raw \in RawUrls}

\* the heuristic pass over each of them
HeuristicsOf == [url \in ScannedUrls |-> Heuristics(url)]

\* whether the path of each of them has a keyword
PathHasKeywordOf == [url \in ScannedUrls |-> PathHasKeyword(url)]

\* C24: in the indicators of a scanned url, in the order the pass emitted them, 'Suspicious
\* Path Keywords' (severity 0.6) is present exactly when the path contains a keyword and
\* one of 'Suspicious Top-Level Domain', 'Brand Impersonation' and 'Missing HTTPS' is;
\* it comes after every one of those three, at most once, and an https url with a
\* keyword in its path has none when neither the TLD nor the brand rule fired
C24_PathKeywordsNeedSignal ==
    UrlScanned =>
        LET url == response[1].body.scanned_input
            indicators == HeuristicsOf[url]
            path == PositionsOf(indicators, {"Suspicious Path Keywords"})
            signals == PositionsOf(indicators, {"Suspicious Top-Level Domain", "Brand Impersonation",
                                                "Missing HTTPS"})
        IN  /\ Len(response[1].body.indicators) = Len(indicators)
            /\ \A k \in 1..Len(indicators) : response[1].body.indicators[k].name = indicators[k].name
            /\ path # {} <=> (PathHasKeywordOf[url] /\ signals # {})
            /\ Cardinality(path) <= 1
            /\ \A p \in path : indicators[p].severity = 60 /\ \A s \in signals : s < p
            /\ (/\ StartsWith(url, "https://")
                /\ PositionsOf(indicators, {"Suspicious Top-Level Domain", "Brand Impersonation"}) = {})
                  => path = {}

\* http://192.168.1.1/banking/login: 'Missing HTTPS' and then the path keywords
C24_Witness ==
    /\ UrlScanned
    /\ response[1].body.scanned_input = "http://192.168.1.1/banking/login"
    /\ PathHasKeyword(response[1].body.scanned_input)
    /\ \E k \in 1..Len(response[1].body.indicators) :
           /\ response[1].body.indicators[k].name = "Suspicious Path Keywords"
           /\ \E j \in 1..(k - 1) : response[1].body.indicators[j].name = "Missing HTTPS"

FeedChecks == << "check_google_safe_browsing", "check_virustotal", "check_phishtank", "check_urlhaus" >>

\* the arguments of the calls of op among the steps taken, in the order of the calls
ArgsOf(steps, op) ==
    LET calls == SelectSeq(steps, LAMBDA x : x.op = op)
    IN  [k \in 1..Len(calls) |-> calls[k].arg]

\* scan_email ran on the urls: the url heuristics and each of the four feed checks were
\* called once on each of the first five, in the order of the text, and on nothing else
FirstFiveAnalyzed(steps, urls) ==
    /\ ArgsOf(steps, "analyze_url_heuristics") = Take(urls, 5)
    /\ \A k \in 1..Len(FeedChecks) : ArgsOf(steps, FeedChecks[k]) = Take(urls, 5)
    /\ Len(SelectSeq(steps, LAMBDA x : \E k \in 1..Len(FeedChecks) : x.op = FeedChecks[k])) <= 20

\* C25: scanEmail analyzes exactly the first min(5, n) of the n urls of the text, in text
\* order: the url heuristics and the four feeds run once for each of them and for no
\* other url, the feeds are invoked at most 20 times, and extracted_urls in the result
\* lists exactly those urls
C25_FirstFiveUrls ==
    (EmailRequested /\ response[1].status # 422) =>
        /\ FirstFiveAnalyzed(work, FindUrls(Strip(request[1].content), 1))
        /\ response[1].status = 200
        /\ response[1].body.extracted_urls = Take(FindUrls(Strip(request[1].content), 1), 5)

\* an email whose second url has an unmatched bracket: the heuristics are called on both
\* urls, the feeds on the first alone, and the answer is an error without a result
C25_SecondUrlNotChecked ==
    /\ EmailRequested
    /\ FindUrls(Strip(request[1].content), 1) = << "http://ok.example.com", "http://a[b/login" >>
    /\ ArgsOf(work, "analyze_url_heuristics") = << "http://ok.example.com", "http://a[b/login" >>
    /\ \A k \in 1..Len(FeedChecks) : ArgsOf(work, FeedChecks[k]) = << "http://ok.example.com" >>
    /\ response[1].status = 500

\* on the scorer: with the domain, the structural and the reputation sub-scores 0
\* and the reputation layer unavailable, the overall score is 0.25 * language rounded, at
\* most 25, and the label 'safe'
C26_LanguageAlone ==
    (/\ Applied("compute_overall_score")
     /\ call[1].args[1] = 0 /\ call[1].args[2] = 0 /\ call[1].args[4] = 0 /\ ~call[1].args[5]) =>
        /\ Nearest(call[1].ret[1], 25 * call[1].args[3], 100)
        /\ call[1].ret[1] <= 25
        /\ call[1].ret[2] = "safe"

\* C26: an email in which no url is found is scored on its language alone: the domain,
\* the structural and the reputation sub-scores are 0, no feed is asked and the
\* reputation layer is unavailable, so that the overall score is 0.25 * language
\* rounded, which is at most 25, and the label is 'safe'
C26_NoUrlEmail ==
    /\ C26_LanguageAlone
    /\ (EmailRequested /\ response[1].status = 200 /\ FindUrls(Strip(request[1].content), 1) = << >>) =>
        /\ response[1].body.sub_scores.domain = 0
        /\ response[1].body.sub_scores.structural = 0
        /\ response[1].body.sub_scores.api_reputation = 0
        /\ response[1].body.api_status = << >>
        /\ \A k \in 1..Len(work) : work[k].op = "analyze_email_heuristics"
        /\ Nearest(response[1].body.overall_score, 25 * response[1].body.sub_scores.language, 100)
        /\ response[1].body.overall_score <= 25
        /\ response[1].body.label = "safe"
        /\ response[1].body.extracted_urls = << >>

\* urgency and a request for sensitive data, and no url: language 23, overall 6
C26_Witness ==
    /\ EmailRequested
    /\ request[1].content = "Urgent: update your bank account"
    /\ FindUrls(Strip(request[1].content), 1) = << >>
    /\ response[1].status = 200
    /\ response[1].body.sub_scores.language = 23
    /\ response[1].body.overall_score = 6
    /\ response[1].body.label = "safe"

\* the labels in the order of their severity
Severity(label) == CASE label = "safe" -> 0 [] label = "suspicious" -> 1 [] label = "dangerous" -> 2

\* C27: for the same domain, structural and language sub-scores, the overall score with
\* the reputation layer available and its sub-score 0 is never greater than the overall
\* score with the layer unavailable, and its label is never the more severe one
C27_CleanReputationNeverRaises ==
    (Applied("compute_overall_score") /\ call[1].args[4] = 0 /\ call[1].args[5]) =>
        LET without == compute_overall_score(call[1].args[1], call[1].args[2], call[1].args[3], 0, FALSE)
        IN  /\ call[1].ret[1] <= without[1]
            /\ Severity(call[1].ret[2]) <= Severity(without[2])

\* the sub-scores 17, 92 and 98: 48.55 and so 49 with a clean reputation, 60.5 and so 60
\* without one
C27_Witness ==
    /\ Applied("compute_overall_score")
    /\ call[1].args = << 17, 92, 98, 0, TRUE >>
    /\ call[1].ret[1] < compute_overall_score(17, 92, 98, 0, FALSE)[1]
    /\ call[1].ret = << 49, "suspicious" >>

\* the (brand, variant) pairs of the table, by their positions
BrandPairs ==
    UNION {{<< b, v >> : v \in 1..Len(BRAND_TARGETS[b].variants)} : b \in 1..Len(BRAND_TARGETS)}

BrandOf(p) == BRAND_TARGETS[p[1]].brand

VariantOf(p) == BRAND_TARGETS[p[1]].variants[p[2]]

\* the pairs whose lowercased variant the lowercased hostname contains, without
\* containing the brand
HittingPairs(hostname_lower) ==
    {p \in BrandPairs : /\ Contains(hostname_lower, Lower(VariantOf(p)))
                        /\ ~Contains(hostname_lower, BrandOf(p))}

\* the hostname of each url a scan can answer for, lowercased
HostnameLowerOf == [url \in ScannedUrls |-> Lower(OrEmpty(urlparse(url).hostname))]

\* the pairs that hit it
HittingPairsOf == [url \in ScannedUrls |-> HittingPairs(HostnameLowerOf[url])]

\* p comes before q in the order of the table
TableOrder(p, q) == p[1] < q[1] \/ (p[1] = q[1] /\ p[2] < q[2])

\* what the indicator says of the pair it was emitted for
Impersonates(p) ==
    "This domain appears to impersonate '" \o BrandOf(p) \o "' using a lookalike name '"
        \o VariantOf(p) \o "'. This is a common phishing technique."

\* C28: the indicators of a scanned url have at most one 'Brand Impersonation', present
\* when some (brand, variant) pair of the table is such that the lowercased hostname
\* contains the lowercased variant and not the brand, and emitted for the first such
\* pair in table order; it is never emitted for a variant that contains its own brand,
\* nor for a brand that the hostname contains
C28_FirstBrandPair ==
    UrlScanned =>
        LET hostname_lower == HostnameLowerOf[response[1].body.scanned_input]
            shown == PositionsOf(response[1].body.indicators, {"Brand Impersonation"})
            hits == HittingPairsOf[response[1].body.scanned_input]
        IN  /\ Cardinality(shown) <= 1
            /\ shown # {} <=> hits # {}
            /\ \A k \in shown : \A p \in hits :
                   (\A q \in hits \ {p} : TableOrder(p, q))
                       => response[1].body.indicators[k].explanation = Impersonates(p)
            /\ \A k \in shown : \A p \in BrandPairs :
                   (Contains(Lower(VariantOf(p)), BrandOf(p)) \/ Contains(hostname_lower, BrandOf(p)))
                       => response[1].body.indicators[k].explanation # Impersonates(p)

\* g00gle-paypa1.com hits (paypal, paypa1) and (google, g00gle): the indicator names the
\* pair that is first in the table, not the one that is first in the hostname
C28_Witness ==
    /\ UrlScanned
    /\ response[1].body.scanned_input = "https://g00gle-paypa1.com/"
    /\ HittingPairs("g00gle-paypa1.com") = {<< 1, 1 >>, << 2, 3 >>}
    /\ \E k \in 1..Len(response[1].body.indicators) :
           /\ response[1].body.indicators[k].name = "Brand Impersonation"
           /\ response[1].body.indicators[k].explanation = Impersonates(<< 1, 1 >>)

\* a call returned that the classifier is unavailable because no model could be loaded
LoadFailureReturned(r) ==
    /\ ~r.value.available
    /\ r.used = None
    /\ r.value.error \in {Some("Model file not found"), Some("Failed to load model")}

\* C29: under every interleaving of the predict calls of a process, once a call has
\* returned available = false because the model could not be loaded, no call that
\* returns later returns available = true, and _model and _model_error are never both set
C29_AvailabilityStable ==
    /\ \A i \in 1..Len(returned) : \A j \in (i + 1)..Len(returned) :
           LoadFailureReturned(returned[i]) => ~returned[j].value.available
    /\ ~(_model # None /\ _model_error # None)

\* two calls overlapped while the file at MODEL_PATH appeared: the first found no file
\* and returned unavailable, the second loaded the model and returned a probability
C29_AvailableAfterLoadFailure ==
    /\ overlapped
    /\ Len(returned) = 2
    /\ LoadFailureReturned(returned[1])
    /\ returned[2].value.available
    /\ returned[2].used = _model
    /\ _model # None /\ _model_error = Some("Model file not found")
    /\ loads.attempts = 2

\* C30: for every accepted bulk request, whichever of its urls are scanned and whichever
\* fail, the summary has total = the number of non-blank urls submitted = scanned +
\* errors, safe + suspicious + dangerous = scanned, avg_score <= highest_risk, both of
\* them in 0..100, and both 0 when no url was scanned
C30_SummaryArithmetic ==
    BulkScanned =>
        LET summary == response[1].body.summary
        IN  /\ summary.total = Len(SelectSeq(request[1].urls, LAMBDA url : Strip(url) # ""))
            /\ summary.total = Len(response[1].body.results)
            /\ summary.total = summary.scanned + summary.errors
            /\ summary.scanned >= 0 /\ summary.errors >= 0
            /\ summary.distribution.safe + summary.distribution.suspicious
                  + summary.distribution.dangerous = summary.scanned
            /\ summary.avg_score <= summary.highest_risk
            /\ summary.avg_score \in 0..100
            /\ summary.highest_risk \in 0..100
            /\ summary.scanned = 0 => summary.avg_score = 0 /\ summary.highest_risk = 0

\* three urls of which the second is rejected: two scans of different scores and an error
C30_Witness ==
    /\ BulkScanned
    /\ Len(request[1].urls) = 3
    /\ response[1].body.summary.total = 3
    /\ response[1].body.summary.scanned = 2
    /\ response[1].body.summary.errors = 1
    /\ response[1].body.summary.avg_score > 0
    /\ response[1].body.summary.avg_score < response[1].body.summary.highest_risk
====
